---- MODULE Spec2Model ----
(***************************************************************************)
(* Hit Region Highlighter: the sampling engine (HitRegionCalculator.js,    *)
(* HitRegionMap.js, Coordinate.js, InteractiveElementFinder.js), the       *)
(* canvas renderer (CanvasRenderer.js) and the content-script orchestrator *)
(* (content.js) as one state machine.                                      *)
(*                                                                         *)
(* JavaScript runs every task to completion: a task (a message handler, a  *)
(* timer callback, a storage notification, the continuation of initialize) *)
(* starts only when pc = "idle".  calculate() is a synchronous loop; it is *)
(* modelled one sample per step (pc = "calc") so that time can pass        *)
(* between samples, and nothing else is scheduled while it runs.           *)
(*                                                                         *)
(* Two specifications:                                                     *)
(*   SpecCalc  calculate(resolution, options) called directly, with every  *)
(*             page, viewport, resolution, timeout and signal in bounds;   *)
(*   Spec      the content script, from initialize() on.                   *)
(***************************************************************************)
EXTENDS Integers, Sequences, FiniteSets, TLC

\* ------------------------------------------------------------------ bounds
\* Environment events (messages, storage changes, page mutations, resizes)
\* one behaviour of Spec may contain.
MaxEvents == 2
\* Samples of one pass that take time (SlowSampleMs or StalledSampleMs).
MaxSlow == 2

\* ------------------------------------------------------- program constants
\* HitRegionMap.maxCoordinatesPerElement.  The program's value is 10000; the
\* model scales it to the size of the grids it can enumerate (1 to 16
\* points), so that an element with more grid points than the cap exists.
MaxCoordinatesPerElement == 4
\* calculate's default timeout and the timeout calculateHitRegions passes.
DefaultTimeoutMs == 5000
CalcTimeoutMs == 10000
\* Debounce windows and the progress indicator's delay.
MutationDebounceMs == 300
ResizeDebounceMs == 200
ProgressDelayMs == 500
\* DEFAULT_CONFIG.samplingResolution.
DefaultResolution == 10

\* The values a samplingResolution can have: an integer n, NaN (what parseInt
\* gives for text without digits) and null; undefined is a missing field.
NumberValue(n) == [typeof |-> "number", nan |-> FALSE, value |-> n]
NaN == [typeof |-> "number", nan |-> TRUE, value |-> 0]
Null == [typeof |-> "object", nan |-> FALSE, value |-> 0]

\* --------------------------------------------------------------- the page
\* html > body > panel > btn > icon ; body > link ; "stale" is a node that
\* is not in the document (a hit-test result removed during the pass).
Nodes == {"html", "body", "panel", "btn", "icon", "link", "stale"}
NoNode == "null"
NoAttr == "<absent>"

parentElement(n) ==
  CASE n = "icon" -> "btn"
    [] n = "btn" -> "panel"
    [] n = "panel" -> "body"
    [] n = "link" -> "body"
    [] n = "body" -> "html"
    [] OTHER -> NoNode

documentElement == "html"

\* An element as the classifier reads it: tag name, role attribute, type
\* attribute, presence of href, computed pointer-events.
Desc(tag, role, type, href, pe) ==
  [tag |-> tag, role |-> role, type |-> type, href |-> href, pe |-> pe]

Plain(tag) == Desc(tag, NoAttr, NoAttr, FALSE, "auto")

\* The default page: a <button> with an icon inside a <div> panel, and an
\* <a href> beside it.
DefaultDom ==
  [n \in Nodes |->
     CASE n = "btn" -> Plain("button")
       [] n = "link" -> Desc("a", NoAttr, NoAttr, TRUE, "auto")
       [] n = "icon" -> Plain("span")
       [] n = "html" -> Plain("html")
       [] n = "body" -> Plain("body")
       [] n = "stale" -> Plain("button")
       [] OTHER -> Plain("div")]

\* Variants of the default page.
DomVariants ==
  { DefaultDom,
    \* parent and grandparent of the icon both interactive
    [DefaultDom EXCEPT !["panel"] = Desc("div", "button", NoAttr, FALSE, "auto")],
    \* role=button with pointer-events: none, inside an interactive panel
    [DefaultDom EXCEPT !["btn"] = Desc("div", "button", NoAttr, FALSE, "none"),
                       !["panel"] = Desc("div", "link", NoAttr, FALSE, "auto")],
    \* only the document root element is interactive
    [DefaultDom EXCEPT !["html"] = Desc("html", "button", NoAttr, FALSE, "auto"),
                       !["btn"] = Plain("div"),
                       !["link"] = Desc("a", NoAttr, NoAttr, FALSE, "auto")],
    \* an input control inside the panel, and an anchor without href
    [DefaultDom EXCEPT !["btn"] = Desc("input", NoAttr, "submit", FALSE, "auto"),
                       !["link"] = Desc("a", NoAttr, NoAttr, FALSE, "auto")],
    \* a <button> whose role attribute is the empty string
    [DefaultDom EXCEPT !["btn"] = Desc("button", "", NoAttr, FALSE, "auto")],
    \* a <button> with another explicit role, a text input, an <area href>
    [DefaultDom EXCEPT !["btn"] = Desc("button", "presentation", NoAttr, FALSE, "auto"),
                       !["icon"] = Desc("input", NoAttr, "text", FALSE, "auto"),
                       !["link"] = Desc("area", NoAttr, NoAttr, TRUE, "auto")] }

\* ------------------------------------------------------------- variables
VARIABLES
  \* the host page
  viewport,      \* [w, h]: window.innerWidth, window.innerHeight
  dom,           \* node -> Desc
  attached,      \* the nodes document.contains
  geometry,      \* [btn, icon, link, linkEnd, linkHit]: where the nodes are rendered
  \* the JavaScript thread
  pc,            \* "ready" | "idle" | "calc" | "done"
  caller,        \* who called calculate: "direct" | "init" | "config" | "page"
  \* one calculate() invocation
  calc,          \* its locals (see StartCalculate)
  signal,        \* options.signal: "none" | "live" | "aborted"
  outcome,       \* how the last calculate ended: <<>> (not ended),
                 \* <<"returned">> or the thrown Error's message
  \* content.js module state
  phase,         \* initialize(): "loading" | "ready" | "failed"
  stored,        \* the record under hitRegionConfig in chrome.storage.sync
  currentConfig, \* <<>> (null) or <<record>>
  hitRegionMap,  \* <<>> (null) or <<HitRegionMap>>
  rendererMade,  \* renderer !== null
  currentlySelectedElement,
  calculationAbortController, \* "null" | "set"
  mutationDebounceTimer,      \* pending timers it set: ms until each fires
  resizeDebounceTimer,        \*   (the last one is the one the handle names)
  progressTimeouts,           \* progressTimeout timers never cleared: ms left
  progressIndicator,          \* the indicator is in the page
  unhandledRejections,        \* rejected promises nobody handles
  \* CanvasRenderer
  canvas,        \* this.canvas !== null (created, attached, with a context)
  painted,       \* what the canvas shows: set of [element, coords, stale]
  rafQueue,      \* requestAnimationFrame callbacks not yet run
  \* observation
  budget,        \* environment events left
  last,          \* the task that ran last and what it saw
  burst,         \* per signal source: signals since its handler last ran,
                 \* ms since the last signal, whether a pass delayed it
  lastComplete,  \* <<>> or <<the map the last completed pass returned>>
  inbox,         \* messages sent to the content script while a task kept
                 \* the thread, not yet handed to the onMessage listener
  deselected     \* an elementDeselected request was handled and no
                 \* elementSelected/elementHovered request since

pageVars == <<viewport, dom, attached, geometry>>
calcVars == <<pc, caller, calc, signal, outcome>>
moduleVars == <<phase, stored, currentConfig, hitRegionMap, rendererMade,
                currentlySelectedElement, calculationAbortController,
                mutationDebounceTimer, resizeDebounceTimer, progressTimeouts,
                progressIndicator, unhandledRejections>>
rendererVars == <<canvas, painted, rafQueue>>
ghostVars == <<budget, last, burst, lastComplete, deselected, inbox>>
vars == <<pageVars, calcVars, moduleVars, rendererVars, ghostVars>>

\* ------------------------------------------------ Interactive-element finder
getImplicitRole(d) ==
  IF d.tag = "button" THEN "button"
  ELSE IF d.tag = "input" /\ d.type \in {"button", "submit", "reset", "image"}
    THEN "button"
  ELSE IF d.tag = "a" /\ d.href THEN "link"
  ELSE IF d.tag = "area" /\ d.href THEN "link"
  ELSE NoAttr

\* explicitRole || implicitRole: an absent or empty role attribute is falsy.
effectiveRole(d) ==
  IF d.role \notin {NoAttr, ""} THEN d.role ELSE getImplicitRole(d)

isInteractive(n) ==
  /\ n \in Nodes
  /\ effectiveRole(dom[n]) \in {"button", "link"}
  /\ dom[n].pe # "none"

\* The loop of findInteractiveAncestor: it stops, without testing it, at the
\* document root element.
RECURSIVE ancestorWalk(_)
ancestorWalk(current) ==
  IF current = NoNode \/ current = documentElement THEN NoNode
  ELSE IF isInteractive(current) THEN current
  ELSE ancestorWalk(parentElement(current))

findInteractiveAncestor(n) ==
  IF n \notin Nodes THEN NoNode ELSE ancestorWalk(n)

\* --------------------------------------------------------------- hit test
\* document.elementFromPoint(x, y) on the page as rendered: a node, "null",
\* or "throws".  The link occupies geometry.link <= x < geometry.linkEnd;
\* there the hit test gives geometry.linkHit ("link", "null", "throws" or
\* the removed node "stale").  Elsewhere the icon covers [0,icon)^2 inside
\* the button, the button [0,btn)^2 inside the panel, the panel the rest.
elementFromPoint(x, y) ==
  IF x >= geometry.link /\ x < geometry.linkEnd
    THEN IF geometry.linkHit = "link"
           THEN (IF "link" \in attached THEN "link" ELSE "body")
           ELSE geometry.linkHit
  ELSE IF x < geometry.icon /\ y < geometry.icon /\ x < geometry.btn
          /\ y < geometry.btn /\ "icon" \in attached THEN "icon"
  ELSE IF x < geometry.btn /\ y < geometry.btn /\ "btn" \in attached THEN "btn"
  ELSE IF "panel" \in attached THEN "panel"
  ELSE "body"

\* A text node of document.body: a node of the document, not an element.
TextNode == "#text"

\* document.contains(n)
contains(n) == n \in attached \cup {TextNode}

sampleCoordinate(x, y) ==
  LET element == elementFromPoint(x, y) IN
    IF element = "throws" THEN NoNode
    ELSE IF element = NoNode THEN NoNode
    ELSE IF ~contains(element) THEN NoNode
    ELSE findInteractiveAncestor(element)

\* ------------------------------------------------------------ coordinates
createCoordinate(x, y) == [x |-> x, y |-> y]

\* null or undefined where a coordinate is expected.
NoCoordinate == [null |-> TRUE]

DigitChars == <<"0", "1", "2", "3", "4", "5", "6", "7", "8", "9">>

\* Mutant of numberToString: only the last two digits are written.
numberToStringShort(n) ==
  IF n < 10 THEN <<DigitChars[n + 1]>>
  ELSE <<DigitChars[((n \div 10) % 10) + 1], DigitChars[(n % 10) + 1]>>

\* String(n) for a non-negative integer n.
RECURSIVE numberToString(_)
numberToString(n) ==
  IF n < 10 THEN <<DigitChars[n + 1]>>
  ELSE numberToString(n \div 10) \o <<DigitChars[(n % 10) + 1]>>

\* `${coord.x},${coord.y}` as a sequence of characters.
coordToKey(coord) == numberToString(coord.x) \o <<",">> \o numberToString(coord.y)

DigitValue(ch) == (CHOOSE i \in 1..10 : DigitChars[i] = ch) - 1

RECURSIVE stringToNumber(_)
stringToNumber(s) ==
  IF s = <<>> THEN 0
  ELSE stringToNumber(SubSeq(s, 1, Len(s) - 1)) * 10 + DigitValue(s[Len(s)])

\* key.split(',').map(Number), first two parts.
keyToCoord(key) ==
  LET commas == {i \in 1..Len(key) : key[i] = ","}
      first == CHOOSE i \in commas : \A j \in commas : i <= j
      rest == SubSeq(key, first + 1, Len(key))
      restCommas == {i \in 1..Len(rest) : rest[i] = ","}
      yEnd == IF restCommas = {} THEN Len(rest)
              ELSE (CHOOSE i \in restCommas : \A j \in restCommas : i <= j) - 1
  IN [x |-> stringToNumber(SubSeq(key, 1, first - 1)),
      y |-> stringToNumber(SubSeq(rest, 1, yEnd))]

\* JavaScript values as isValidCoordinate sees them: what typeof gives and
\* which value it is; an object also has its x and y (undefined if missing).
JsValue(type, is) == [typeof |-> type, is |-> is]
JsUndefined == JsValue("undefined", "undefined")
JsNull == JsValue("object", "null")
JsNumbers ==
  {JsValue("number", v) : v \in {"0", "7", "-3", "1.5", "NaN", "Infinity", "-Infinity"}}
JsPrimitives ==
  JsNumbers \cup {JsUndefined, JsNull, JsValue("string", "5"), JsValue("boolean", "true")}
JsObject(x, y) == [typeof |-> "object", is |-> "object", x |-> x, y |-> y]
JsComponents == JsPrimitives \cup {JsObject(JsUndefined, JsUndefined)}
JsInputs == JsPrimitives \cup {JsObject(x, y) : x, y \in JsComponents}

\* isNaN(v) and isFinite(v) for a v whose typeof is number.
isNaN(v) == v.is = "NaN"
isFinite(v) == v.is \notin {"NaN", "Infinity", "-Infinity"}

\* Mutant of isValidCoordinate: the isFinite tests are left out.
isValidCoordinateNaNOnly(coord) ==
  /\ coord # JsNull
  /\ coord # JsUndefined
  /\ coord.typeof = "object"
  /\ coord.x.typeof = "number"
  /\ coord.y.typeof = "number"
  /\ ~isNaN(coord.x)
  /\ ~isNaN(coord.y)

\* isValidCoordinate(coord); the conjuncts are evaluated in this order and
\* the first false one decides.
isValidCoordinate(coord) ==
  /\ coord # JsNull
  /\ coord # JsUndefined
  /\ coord.typeof = "object"
  /\ coord.x.typeof = "number"
  /\ coord.y.typeof = "number"
  /\ ~isNaN(coord.x)
  /\ ~isNaN(coord.y)
  /\ isFinite(coord.x)
  /\ isFinite(coord.y)

\* ----------------------------------------------------------- HitRegionMap
\* elementToCoordinates (WeakMap element -> Set of keys), coordinateToElement
\* (Map key -> element), elements (Set), as functions and a set.
NewHitRegionMap ==
  [elementToCoordinates |-> <<>>, coordinateToElement |-> <<>>, elements |-> {}]

coordinatesOf(m, element) ==
  IF element \in DOMAIN m.elementToCoordinates
    THEN m.elementToCoordinates[element] ELSE {}

\* Mutant of addCoordinate: at the cap the coordinate still goes into
\* coordinateToElement.
addCoordinateCapLeak(m, element, coord) ==
  IF element = NoNode \/ coord = NoCoordinate THEN m
  ELSE
    LET withElement ==
          IF element \in DOMAIN m.elementToCoordinates THEN m
          ELSE [m EXCEPT !.elementToCoordinates = (element :> {}) @@ @,
                         !.elements = @ \cup {element}]
        coordinates == withElement.elementToCoordinates[element]
        key == coordToKey(coord)
    IN IF Cardinality(coordinates) >= MaxCoordinatesPerElement
         THEN [withElement EXCEPT !.coordinateToElement = (key :> element) @@ @]
         ELSE [withElement EXCEPT
                 !.elementToCoordinates[element] = @ \cup {key},
                 !.coordinateToElement = (key :> element) @@ @]

\* Mutant of addCoordinate: a coordinate that has an element keeps it.
addCoordinateFirstWins(m, element, coord) ==
  IF element = NoNode \/ coord = NoCoordinate THEN m
  ELSE
    LET withElement ==
          IF element \in DOMAIN m.elementToCoordinates THEN m
          ELSE [m EXCEPT !.elementToCoordinates = (element :> {}) @@ @,
                         !.elements = @ \cup {element}]
        coordinates == withElement.elementToCoordinates[element]
        key == coordToKey(coord)
    IN IF Cardinality(coordinates) >= MaxCoordinatesPerElement
         THEN withElement
         ELSE [withElement EXCEPT
                 !.elementToCoordinates[element] = @ \cup {key},
                 !.coordinateToElement = @ @@ (key :> element)]

\* addCoordinate(element, coord): the map afterwards.
addCoordinate(m, element, coord) ==
  IF element = NoNode \/ coord = NoCoordinate THEN m
  ELSE
    LET withElement ==
          IF element \in DOMAIN m.elementToCoordinates THEN m
          ELSE [m EXCEPT !.elementToCoordinates = (element :> {}) @@ @,
                         !.elements = @ \cup {element}]
        coordinates == withElement.elementToCoordinates[element]
        key == coordToKey(coord)
    IN IF Cardinality(coordinates) >= MaxCoordinatesPerElement
         THEN withElement
         ELSE [withElement EXCEPT
                 !.elementToCoordinates[element] = @ \cup {key},
                 !.coordinateToElement = (key :> element) @@ @]

\* What addCoordinate(element, coord) returns.
addCoordinateReturns(m, element, coord) ==
  /\ element # NoNode
  /\ coord # NoCoordinate
  /\ Cardinality(coordinatesOf(m, element)) < MaxCoordinatesPerElement

\* Whether addCoordinate(element, coord) calls console.warn.
addCoordinateWarns(m, element, coord) ==
  /\ element # NoNode
  /\ coord # NoCoordinate
  /\ Cardinality(coordinatesOf(m, element)) >= MaxCoordinatesPerElement
  /\ Cardinality(coordinatesOf(m, element)) = MaxCoordinatesPerElement

\* Mutant of getCoordinates: the two parts of a key are taken in the other
\* order.
getCoordinatesSwapped(m, element) ==
  IF element = NoNode THEN {}
  ELSE { createCoordinate(keyToCoord(key).y, keyToCoord(key).x) :
           key \in coordinatesOf(m, element) }

\* getCoordinates(element): the keys decoded (as a set; the array's order is
\* the insertion order and is not used by any reader).
getCoordinates(m, element) ==
  IF element = NoNode THEN {}
  ELSE { keyToCoord(key) : key \in coordinatesOf(m, element) }

\* getElement(coord): the element, or NoNode for null.
getElement(m, coord) ==
  IF coord = NoCoordinate THEN NoNode
  ELSE IF coordToKey(coord) \in DOMAIN m.coordinateToElement
    THEN m.coordinateToElement[coordToKey(coord)]
  ELSE NoNode

\* clear()
clearMap(m) == NewHitRegionMap

\* The elements the map keeps alive: the members of the Set `elements` and
\* the values of the Map `coordinateToElement`.  The keys of the WeakMap
\* `elementToCoordinates` are held weakly.
strongReferences(m) ==
  m.elements \cup {m.coordinateToElement[key] : key \in DOMAIN m.coordinateToElement}

getStats(m) ==
  [elementCount |-> Cardinality(m.elements),
   coordinateCount |-> Cardinality(DOMAIN m.coordinateToElement)]

\* ------------------------------------------------- HitRegionCalculator.js
\* Mutant of gridColumn: the column runs while y <= height.
RECURSIVE gridColumnInclusive(_, _, _, _)
gridColumnInclusive(x, y, resolution, height) ==
  IF y <= height
    THEN <<createCoordinate(x, y)>>
           \o gridColumnInclusive(x, y + resolution, resolution, height)
    ELSE <<>>

\* The inner loop of generateCoordinateGrid: the points of column x from y on.
RECURSIVE gridColumn(_, _, _, _)
gridColumn(x, y, resolution, height) ==
  IF y < height
    THEN <<createCoordinate(x, y)>> \o gridColumn(x, y + resolution, resolution, height)
    ELSE <<>>

RECURSIVE gridFrom(_, _, _, _)
gridFrom(x, resolution, width, height) ==
  IF x < width
    THEN gridColumn(x, 0, resolution, height)
           \o gridFrom(x + resolution, resolution, width, height)
    ELSE <<>>

\* generateCoordinateGrid(resolution), for resolution >= 1.
generateCoordinateGrid(resolution) ==
  gridFrom(0, resolution, viewport.w, viewport.h)

\* Error messages, word by word.
CancelledMessage == <<"Calculation", "cancelled", "by", "user">>
TimeoutMessage == <<"Calculation", "exceeded", "timeout", "of", "ms">>
Returned == <<"returned">>

\* Mutant of loopCheck: the checks run every other iteration only.
loopCheckSparse(c, sig) ==
  IF c.i % 2 = 1 THEN <<>>
  ELSE IF sig = "aborted" THEN CancelledMessage
  ELSE IF c.elapsed > c.timeout THEN TimeoutMessage
  ELSE <<>>

\* The checks at the top of calculate's loop body: the message of the Error
\* thrown, or <<>> to go on.  signal && signal.aborted, then
\* performance.now() - startTime > timeout.
loopCheck(c, sig) ==
  IF sig = "aborted" THEN CancelledMessage
  ELSE IF c.elapsed > c.timeout THEN TimeoutMessage
  ELSE <<>>

\* onProgress && i % Math.floor(totalCoordinates / 10) === 0
\* (x % 0 is NaN in JavaScript, and NaN === 0 is false).
progressDue(c) ==
  LET step == Len(c.coordinates) \div 10 IN
    c.onProgress /\ step # 0 /\ c.i % step = 0

\* Mutant of sampleInto: the element found is recorded without testing
\* whether a hit-test node exists there.
sampleIntoUnchecked(m, coord) ==
  LET hit == elementFromPoint(coord.x, coord.y)
      element == IF hit \in Nodes THEN findInteractiveAncestor(hit) ELSE "panel"
  IN IF element # NoNode THEN addCoordinate(m, element, coord) ELSE m

\* The sampling part of the loop body: sampleCoordinate, and addCoordinate
\* when an element was found and is still in the document.
sampleInto(m, coord) ==
  LET element == sampleCoordinate(coord.x, coord.y) IN
    IF element # NoNode /\ contains(element)
      THEN addCoordinate(m, element, coord)
      ELSE m

\* The cap warnings (console.warn) of the map per element, since the map was
\* created or cleared, after sampling coord.
sampleWarnings(warnings, m, coord) ==
  LET element == sampleCoordinate(coord.x, coord.y) IN
    IF element # NoNode /\ contains(element) /\ addCoordinateWarns(m, element, coord)
      THEN [warnings EXCEPT ![element] = @ + 1]
      ELSE warnings

\* The locals of calculate(resolution, {timeout, onProgress, signal}) when
\* the loop is entered.  before: what the caller held when it called.
StartCalculate(resolution, timeout, onProgress, before) ==
  [resolution |-> resolution,
   passed |-> <<NumberValue(resolution)>>,
   timeout |-> timeout,
   onProgress |-> onProgress,
   coordinates |-> generateCoordinateGrid(resolution),
   i |-> 0,
   hitRegionMap |-> NewHitRegionMap,
   elapsed |-> 0,
   slow |-> 0,
   progressCalls |-> {},
   unguarded |-> FALSE,
   warnings |-> [e \in Nodes |-> 0],
   accepted |-> [e \in Nodes |-> {}],
   before |-> before]

NoFire == [source |-> "none", signals |-> 0, since |-> 0, late |-> FALSE]
NoBefore == [map |-> <<>>, selected |-> NoNode, fired |-> NoFire, restyled |-> FALSE]

NotCalculating ==
  [resolution |-> 0, passed |-> <<>>, timeout |-> 0, onProgress |-> FALSE, coordinates |-> <<>>,
   i |-> 0, hitRegionMap |-> NewHitRegionMap, elapsed |-> 0, slow |-> 0,
   progressCalls |-> {}, unguarded |-> FALSE, warnings |-> [e \in Nodes |-> 0],
   accepted |-> [e \in Nodes |-> {}], before |-> NoBefore]

\* How long one sample can take.
SlowSampleMs == DefaultTimeoutMs
StalledSampleMs == CalcTimeoutMs + DefaultTimeoutMs
SampleDurations(c) ==
  IF c.slow < MaxSlow THEN {0, SlowSampleMs, StalledSampleMs} ELSE {0}
\* In the content script's passes a sample is immediate or stalls.
PassDurations(c) ==
  IF caller = "direct" THEN SampleDurations(c)
  ELSE IF c.slow < MaxSlow THEN {0, StalledSampleMs} ELSE {0}

\* Timers pending in the host count down while time passes.
Countdown(t, d) == IF t > d THEN t - d ELSE 0
CountdownAll(timers, d) == [k \in DOMAIN timers |-> Countdown(timers[k], d)]

\* Observation of the debounce: time since the last signal of each source
\* (saturating), and whether a pass kept the thread while its timer ran.
SinceCap == MutationDebounceMs + ResizeDebounceMs
Elapse(b, d, busy) ==
  [s \in DOMAIN b |->
     IF b[s].signals = 0 THEN b[s]
     ELSE [b[s] EXCEPT !.since = IF @ + d > SinceCap THEN SinceCap ELSE @ + d,
                       !.late = @ \/ (busy /\ d > 0)]]

\* Mutant of ThreadFree: calculate yields to the event loop between samples.
ThreadFreeYielding == pc \in {"idle", "calc"}

\* A new task (a message handler, a timer or animation-frame callback, a
\* storage notification) can start: no task is running.  calculate's loop
\* has no await, so the pass keeps the thread until it returns or throws.
ThreadFree == pc = "idle"

\* One iteration of calculate's loop that passes the checks: the point is
\* sampled, progress is reported, and the sample took `d` ms.  The progress
\* callback of a direct caller may abort the signal.
Sample ==
  /\ pc = "calc"
  /\ calc.i < Len(calc.coordinates)
  /\ loopCheck(calc, signal) = <<>>
  /\ \E d \in PassDurations(calc) :
       /\ calc' = [calc EXCEPT
            !.hitRegionMap = sampleInto(@, calc.coordinates[calc.i + 1]),
            !.progressCalls = IF progressDue(calc) THEN @ \cup {calc.i} ELSE @,
            !.unguarded = @ \/ signal = "aborted" \/ calc.elapsed > calc.timeout,
            !.warnings = sampleWarnings(@, calc.hitRegionMap,
                                        calc.coordinates[calc.i + 1]),
            !.i = @ + 1,
            !.elapsed = @ + d,
            !.slow = IF d > 0 THEN @ + 1 ELSE @]
       /\ mutationDebounceTimer' = CountdownAll(mutationDebounceTimer, d)
       /\ resizeDebounceTimer' = CountdownAll(resizeDebounceTimer, d)
       /\ progressTimeouts' = {Countdown(t, d) : t \in progressTimeouts}
       /\ burst' = Elapse(burst, d, TRUE)
  /\ \/ signal' = signal
     \/ /\ caller = "direct"
        /\ progressDue(calc)
        /\ signal = "live"
        /\ signal' = "aborted"
  /\ UNCHANGED <<pageVars, pc, caller, outcome>>
  /\ UNCHANGED <<phase, stored, currentConfig, hitRegionMap, rendererMade,
                 currentlySelectedElement, calculationAbortController,
                 progressIndicator, unhandledRejections>>
  /\ UNCHANGED <<rendererVars, budget, last, lastComplete, deselected, inbox>>

\* How the pass at hand ends, if it ends now: the thrown message, Returned
\* when the loop is over, <<>> when it goes on.
passEnd ==
  IF calc.i < Len(calc.coordinates) THEN loopCheck(calc, signal) ELSE Returned

\* ------------------------------------------------- calculate called directly
CalcViewports == {[w |-> 100, h |-> 100], [w |-> 120, h |-> 50]}
CalcResolutions == {30, 50, 100}
CalcGeometries ==
  { [btn |-> b, icon |-> 30, link |-> l.at, linkEnd |-> l.end, linkHit |-> l.hit] :
      b \in {0, 60, 200},
      l \in { [at |-> 1000, end |-> 1000, hit |-> "link"],
              [at |-> 60, end |-> 1000, hit |-> "link"],
              [at |-> 60, end |-> 1000, hit |-> "null"],
              [at |-> 60, end |-> 1000, hit |-> "throws"],
              [at |-> 60, end |-> 1000, hit |-> "stale"],
              [at |-> 0, end |-> 30, hit |-> "null"],
              [at |-> 0, end |-> 30, hit |-> "throws"],
              [at |-> 0, end |-> 30, hit |-> "stale"] } }
CalcOptions ==
  { [timeout |-> DefaultTimeoutMs, signal |-> "none", onProgress |-> FALSE],
    [timeout |-> DefaultTimeoutMs, signal |-> "live", onProgress |-> TRUE],
    [timeout |-> DefaultTimeoutMs, signal |-> "aborted", onProgress |-> TRUE],
    [timeout |-> CalcTimeoutMs, signal |-> "none", onProgress |-> TRUE],
    [timeout |-> CalcTimeoutMs, signal |-> "live", onProgress |-> TRUE],
    [timeout |-> CalcTimeoutMs, signal |-> "aborted", onProgress |-> FALSE] }

AllAttached == Nodes \ {"stale"}
NoBurst ==
  [s \in {"mutation", "resize"} |-> [signals |-> 0, since |-> 0, late |-> FALSE]]
DEFAULT_CONFIG ==
  [samplingResolution |-> NumberValue(DefaultResolution), highlightColor |-> "#00ff00",
   highlightOpacity |-> "0.3", autoRecalculate |-> TRUE]

ContentScriptNotLoaded ==
  /\ phase = "loading"
  /\ stored = DEFAULT_CONFIG
  /\ currentConfig = <<>>
  /\ hitRegionMap = <<>>
  /\ rendererMade = FALSE
  /\ currentlySelectedElement = NoNode
  /\ calculationAbortController = "null"
  /\ mutationDebounceTimer = <<>>
  /\ resizeDebounceTimer = <<>>
  /\ progressTimeouts = {}
  /\ progressIndicator = FALSE
  /\ unhandledRejections = 0
  /\ canvas = FALSE
  /\ painted = {}
  /\ rafQueue = <<>>
  /\ budget = 0
  /\ last = [task |-> "none"]
  /\ burst = NoBurst
  /\ lastComplete = <<>>
  /\ deselected = FALSE
  /\ inbox = <<>>

\* A caller about to evaluate calculate(resolution, options).
InitCalc ==
  /\ viewport \in CalcViewports
  /\ dom \in DomVariants
  /\ attached = AllAttached
  /\ geometry \in CalcGeometries
  /\ pc = "ready"
  /\ caller = "direct"
  /\ \E r \in CalcResolutions, o \in CalcOptions :
       /\ calc = [NotCalculating EXCEPT !.resolution = r, !.timeout = o.timeout,
                                        !.onProgress = o.onProgress]
       /\ signal = o.signal
  /\ outcome = <<>>
  /\ ContentScriptNotLoaded

\* calculate(resolution, options) up to the loop.
CallCalculate ==
  /\ pc = "ready"
  /\ calc' = StartCalculate(calc.resolution, calc.timeout, calc.onProgress, NoBefore)
  /\ pc' = "calc"
  /\ UNCHANGED <<pageVars, caller, signal, outcome, moduleVars, rendererVars, ghostVars>>

\* calculate returns its map or throws, to the direct caller.
DirectEnd ==
  /\ pc = "calc"
  /\ caller = "direct"
  /\ passEnd # <<>>
  /\ outcome' = passEnd
  /\ pc' = "done"
  /\ UNCHANGED <<pageVars, caller, calc, signal, moduleVars, rendererVars, ghostVars>>

NextCalc == CallCalculate \/ Sample \/ DirectEnd

SpecCalc == InitCalc /\ [][NextCalc]_vars

\* ------------------------------------------------------- CanvasRenderer.js
\* The renderer and the tracked element as a handler threads them:
\* [selected, canvas, painted, rafQueue, wrote]; wrote: the handler changed
\* the children of document.body (appended the canvas or the indicator).
Threaded ==
  [selected |-> currentlySelectedElement, canvas |-> canvas, painted |-> painted,
   rafQueue |-> rafQueue, wrote |-> FALSE]

\* clear(): ctx.clearRect over the whole canvas.
clear(o) == IF o.canvas THEN [o EXCEPT !.painted = {}] ELSE o

\* createOverlay(): a canvas with a 2d context, appended to document.body.
createOverlay(o) == [o EXCEPT !.canvas = TRUE, !.wrote = TRUE]

\* updateDimensions(): assigning canvas.width/height resets the bitmap.
updateDimensions(o) == IF o.canvas THEN [o EXCEPT !.painted = {}] ELSE o

\* renderHitRegion(coordinates, color, opacity): clears now, draws in an
\* animation-frame callback.  element tags the request with the element
\* whose coordinates these are.
renderHitRegion(o, element, coordinates, color) ==
  IF coordinates = {} THEN o
  ELSE LET withCanvas == IF ~o.canvas THEN createOverlay(o) ELSE o
           cleared == clear(withCanvas)
       IN [cleared EXCEPT !.rafQueue =
             Append(@, [element |-> element, coords |-> coordinates,
                        color |-> IF color = <<>> THEN "#00ff00" ELSE color[1],
                        stale |-> FALSE])]

\* The callbacks of one animation frame, in the order they were requested.
RECURSIVE drawAll(_, _)
drawAll(shown, queue) ==
  IF queue = <<>> THEN shown
  ELSE drawAll(shown \cup {Head(queue)}, Tail(queue))

\* -------------------------------------------------------------- content.js
\* A field of a configuration record: <<>> when undefined.
Get(config, field) ==
  IF field \in DOMAIN config THEN <<config[field]>> ELSE <<>>

\* { ...DEFAULT_CONFIG, ...storedConfig }
Merge(defaults, record) ==
  [f \in DOMAIN defaults \cup DOMAIN record |->
     IF f \in DOMAIN record THEN record[f] ELSE defaults[f]]

\* clearVisualization()
clearVisualization(o) ==
  [(IF rendererMade THEN clear(o) ELSE o) EXCEPT !.selected = NoNode]

\* Mutant of visualizeHitRegion: the element is tracked before the Index is
\* looked at.
visualizeHitRegionTrackFirst(o, element, map, config) ==
  IF element = NoNode THEN o
  ELSE IF ~contains(element) THEN clearVisualization(o)
  ELSE IF map = <<>> THEN [o EXCEPT !.selected = element]
  ELSE
    LET tracked == [o EXCEPT !.selected = element]
        coordinates == getCoordinates(map[1], element)
    IN IF coordinates = {} THEN clearVisualization(tracked)
       ELSE IF ~rendererMade THEN tracked
       ELSE LET overlaid == IF ~tracked.canvas THEN createOverlay(tracked) ELSE tracked
            IN IF config = <<>> THEN overlaid
               ELSE renderHitRegion(overlaid, element, coordinates,
                                    Get(config[1], "highlightColor"))

\* visualizeHitRegion(element) with hitRegionMap = map, currentConfig = config.
visualizeHitRegion(o, element, map, config) ==
  IF element = NoNode THEN o
  ELSE IF ~contains(element) THEN clearVisualization(o)
  ELSE IF map = <<>> THEN o
  ELSE
    LET tracked == [o EXCEPT !.selected = element]
        coordinates == getCoordinates(map[1], element)
    IN IF coordinates = {} THEN clearVisualization(tracked)
       ELSE IF ~rendererMade THEN tracked
       ELSE LET overlaid == IF ~tracked.canvas THEN createOverlay(tracked) ELSE tracked
            IN IF config = <<>> THEN overlaid
               ELSE renderHitRegion(overlaid, element, coordinates,
                                    Get(config[1], "highlightColor"))

\* Whether visualizeHitRegion returns true.
visualizeSucceeds(element, map, config) ==
  /\ element # NoNode /\ contains(element) /\ map # <<>>
  /\ getCoordinates(map[1], element) # {}
  /\ rendererMade /\ config # <<>>

\* Mutant of armDebounce: the pending timer is not cleared.
armDebounceNoClear(pending, window) == Append(pending, window)

\* handleMutation / handleResize: clearTimeout on the timer the handle names
\* (the last one set, if it is still pending), then setTimeout(..., window).
armDebounce(pending, window) ==
  IF pending = <<>> THEN <<window>>
  ELSE Append(SubSeq(pending, 1, Len(pending) - 1), window)

\* One more signal of a source: its debounce window restarts.
Signalled(b, source) ==
  [b EXCEPT ![source] = [signals |-> IF @.signals < 2 THEN @.signals + 1 ELSE 2,
                         since |-> 0, late |-> FALSE]]

\* A mutation record as isRelevantMutation reads it: type, attributeName,
\* and the properties set in target.style after the change.
MutationRecord(type, attributeName, style) ==
  [type |-> type, attributeName |-> attributeName, style |-> style]

LayoutStyleProperties ==
  {"pointerEvents", "position", "display", "visibility", "transform",
   "left", "top", "right", "bottom"}

isRelevantMutation(mutation) ==
  \/ /\ mutation.type = "attributes" /\ mutation.attributeName = "style"
     /\ mutation.style \cap LayoutStyleProperties # {}
  \/ mutation.type = "attributes" /\ mutation.attributeName = "class"
  \/ mutation.type = "attributes" /\ mutation.attributeName = "role"
  \/ mutation.type = "childList"

\* The MutationObserver callback on one batch: the timers and the burst
\* observation afterwards, and whether handleMutation ran.  observing: the
\* observer is installed.
observeMutations(timers, b, batch, observing) ==
  IF observing /\ \E m \in batch : isRelevantMutation(m)
    THEN [timers |-> armDebounce(timers, MutationDebounceMs),
          burst |-> Signalled(b, "mutation"), armed |-> TRUE]
    ELSE [timers |-> timers, burst |-> b, armed |-> FALSE]

\* The childList record of the extension's own appendChild / removeChild on
\* document.body.
OwnWrite == {MutationRecord("childList", NoAttr, {})}

\* Mutant of publishedMap: the map built so far is published on abort too.
publishedMapAlways(end, current, built) == <<built>>

\* hitRegionMap = calculate(...): the assignment happens only when calculate
\* returns.
publishedMap(end, current, built) ==
  IF end = Returned THEN <<built>> ELSE current

\* The branch calculateHitRegions' catch takes on error.message.
classify(message) ==
  IF \E k \in DOMAIN message : message[k] = "cancelled" THEN "cancelled"
  ELSE IF \E k \in DOMAIN message : message[k] = "timeout" THEN "timeout"
  ELSE "failed"

\* validateElementIdentifier(elementId); a missing or non-string property
\* is NoAttr.
ValidTypes == {"css", "xpath", "id"}
validateElementIdentifier(elementId) ==
  /\ elementId.type \notin {NoAttr, ""}
  /\ elementId.value \notin {NoAttr, ""}
  /\ elementId.type \in ValidTypes

\* findElementByIdentifier(elementId): what it returns, or NoNode.  The value
\* names the node it selects; querySelector and getElementById find elements
\* of the document only, document.evaluate finds the first node of any kind
\* (result.singleNodeValue).
findElementByIdentifier(elementId) ==
  IF ~validateElementIdentifier(elementId) THEN NoNode
  ELSE IF elementId.type = "xpath" /\ elementId.value = TextNode THEN TextNode
  ELSE IF elementId.value \in attached THEN elementId.value
  ELSE NoNode

\* What the message handler passes to sendResponse for elementSelected and
\* elementHovered.
selectResponse(element, success) ==
  IF element # NoNode THEN [success |-> success, error |-> NoAttr]
  ELSE [success |-> FALSE, error |-> "Element not found"]

\* ---- content script: bounded environment
OrchViewports == {[w |-> 20, h |-> 10], [w |-> 30, h |-> 10]}
StoredRecords ==
  { DEFAULT_CONFIG,
    [DEFAULT_CONFIG EXCEPT !.samplingResolution = NumberValue(2 * DefaultResolution)],
    [DEFAULT_CONFIG EXCEPT !.autoRecalculate = FALSE],
    [highlightColor |-> "#ff0000"] }
Identifiers ==
  { [type |-> "id", value |-> "btn"], [type |-> "css", value |-> "link"],
    [type |-> "tag", value |-> "btn"], [type |-> NoAttr, value |-> "btn"],
    [type |-> "id", value |-> NoAttr], [type |-> "css", value |-> ""],
    [type |-> "id", value |-> "stale"], [type |-> "xpath", value |-> "stale"],
    [type |-> "xpath", value |-> TextNode] }
ButtonShown ==
  [btn |-> 15, icon |-> 0, link |-> 20, linkEnd |-> 1000, linkHit |-> "link"]
ButtonHidden == [ButtonShown EXCEPT !.btn = 0]
TickMs == MutationDebounceMs - ResizeDebounceMs

\* The content script is loaded into a page: initialize() has called
\* loadConfiguration() and awaits it.
Init ==
  /\ viewport = [w |-> 20, h |-> 10]
  /\ dom = DefaultDom
  /\ attached = AllAttached
  /\ geometry = ButtonShown
  /\ ThreadFree
  /\ caller = "init"
  /\ calc = NotCalculating
  /\ signal = "none"
  /\ outcome = <<>>
  /\ phase = "loading"
  /\ stored \in StoredRecords
  /\ currentConfig = <<>>
  /\ hitRegionMap = <<>>
  /\ rendererMade = FALSE
  /\ currentlySelectedElement = NoNode
  /\ calculationAbortController = "null"
  /\ mutationDebounceTimer = <<>>
  /\ resizeDebounceTimer = <<>>
  /\ progressTimeouts = {}
  /\ progressIndicator = FALSE
  /\ unhandledRejections = 0
  /\ canvas = FALSE
  /\ painted = {}
  /\ rafQueue = <<>>
  /\ budget = MaxEvents
  /\ last = [task |-> "none"]
  /\ burst = NoBurst
  /\ lastComplete = <<>>
  /\ deselected = FALSE
  /\ inbox = <<>>

\* The end of a task: the threaded renderer state is stored, and the
\* MutationObserver (a microtask) sees the task's own writes to the page
\* together with `batch`, the page's mutation records of this task.
Settle(o, batch, observing) ==
  LET seen == observeMutations(mutationDebounceTimer, burst,
                               batch \cup (IF o.wrote THEN OwnWrite ELSE {}),
                               observing)
  IN /\ currentlySelectedElement' = o.selected
     /\ canvas' = o.canvas
     /\ painted' = o.painted
     /\ rafQueue' = o.rafQueue
     /\ mutationDebounceTimer' = seen.timers
     /\ burst' = seen.burst

\* a !== b for two samplingResolution fields (<<>> when undefined): NaN is
\* not equal to itself.
strictNotEqual(a, b) == a # b \/ (a # <<>> /\ a[1] = NaN)

\* Whether the loops of generateCoordinateGrid end for the argument passed
\* (the viewport is never empty): with null, or a number below 1, the step
\* `x += resolution` does not move forward.
gridLoopEnds(passed) ==
  \/ passed = <<>>
  \/ passed[1] = NaN
  \/ passed[1].typeof = "number" /\ passed[1].value >= 1

\* calculateHitRegions() up to the loop of calculate: the controller, the
\* progress timeout and the call with currentConfig.samplingResolution.
\* calculate's default applies to undefined only; with NaN the first
\* `y += resolution` and `x += resolution` end both loops, so the grid is the
\* one point (0,0); when the grid loop never ends the call does not return.
BeginPass(who, config, before) ==
  LET passed == Get(config, "samplingResolution")
      regular == passed # <<NaN>> /\ gridLoopEnds(passed)
      started ==
        StartCalculate(
          IF passed = <<>> THEN DefaultResolution
          ELSE IF regular THEN passed[1].value
          ELSE viewport.w + viewport.h,
          CalcTimeoutMs, TRUE, before)
  IN /\ calculationAbortController' = "set"
     /\ signal' = "live"
     /\ calc' =
          IF regular THEN [started EXCEPT !.passed = passed]
          ELSE [started EXCEPT
                  !.passed = passed,
                  !.resolution = 0,
                  !.coordinates = IF passed = <<NaN>> THEN <<createCoordinate(0, 0)>>
                                  ELSE <<>>]
     /\ pc' = IF gridLoopEnds(passed) THEN "calc" ELSE "hung"
     /\ caller' = who
     /\ outcome' = <<>>

\* calculateHitRegions() after calculate returned or threw: the module
\* variables it assigns.  On the normal path the progress timeout is
\* cleared; in the catch block it is not.
EndPass ==
  /\ hitRegionMap' = publishedMap(passEnd, hitRegionMap, calc.hitRegionMap)
  /\ lastComplete' = IF passEnd = Returned THEN <<calc.hitRegionMap>> ELSE lastComplete
  /\ deselected' = deselected
  /\ inbox' = inbox
  /\ progressTimeouts' =
       IF passEnd = Returned THEN progressTimeouts
       ELSE progressTimeouts \cup {Countdown(ProgressDelayMs, calc.elapsed)}
  /\ progressIndicator' = FALSE
  /\ calculationAbortController' = "null"
  /\ outcome' = passEnd
  /\ pc' = "idle"
  /\ UNCHANGED <<calc, signal, caller>>

\* hideProgressIndicator() removes the indicator from document.body.
Hidden(o) == IF progressIndicator THEN [o EXCEPT !.wrote = TRUE] ELSE o

\* ---- initialize()
\* loadConfiguration() resolved: the renderer is created and the initial
\* pass starts.
InitContinue ==
  /\ ThreadFree
  /\ phase = "loading"
  /\ currentConfig' = <<Merge(DEFAULT_CONFIG, stored)>>
  /\ rendererMade' = TRUE
  /\ BeginPass("init", Merge(DEFAULT_CONFIG, stored),
               [NoBefore EXCEPT !.map = hitRegionMap,
                                !.selected = currentlySelectedElement])
  /\ last' = [task |-> "initContinue"]
  /\ UNCHANGED <<pageVars, phase, stored, hitRegionMap, currentlySelectedElement,
                 mutationDebounceTimer, resizeDebounceTimer, progressTimeouts,
                 progressIndicator, unhandledRejections, rendererVars, budget,
                 burst, lastComplete, deselected, inbox>>

\* The initial pass ended.  Normally: the change listener and the observers
\* are installed (the ResizeObserver reports the body's size once when it
\* starts observing).  On an error: the catch block logs it.
InitEnd ==
  /\ pc = "calc"
  /\ caller = "init"
  /\ passEnd # <<>>
  /\ EndPass
  /\ phase' = IF passEnd = Returned THEN "ready" ELSE "failed"
  /\ resizeDebounceTimer' =
       IF passEnd = Returned THEN armDebounce(resizeDebounceTimer, ResizeDebounceMs)
       ELSE resizeDebounceTimer
  /\ burst' = IF passEnd = Returned THEN Signalled(burst, "resize") ELSE burst
  /\ last' = [task |-> "initEnd", outcome |-> passEnd, before |-> calc.before]
  /\ UNCHANGED <<pageVars, stored, currentConfig, rendererMade,
                 currentlySelectedElement, mutationDebounceTimer,
                 unhandledRejections, rendererVars, budget>>

\* ---- chrome.runtime.onMessage
\* elementSelected / elementHovered
ElementSelected ==
  /\ ThreadFree
  /\ budget > 0
  /\ \E elementId \in Identifiers :
       LET element == findElementByIdentifier(elementId)
           o == visualizeHitRegion(Threaded, element, hitRegionMap, currentConfig)
       IN /\ Settle(o, {}, phase = "ready")
          /\ last' = [task |-> "select", found |-> element # NoNode,
                      success |-> visualizeSucceeds(element, hitRegionMap, currentConfig),
                      valid |-> validateElementIdentifier(elementId),
                      node |-> element,
                      response |-> selectResponse(element,
                        visualizeSucceeds(element, hitRegionMap, currentConfig)),
                      before |-> [NoBefore EXCEPT !.map = hitRegionMap,
                                                  !.selected = currentlySelectedElement],
                      shown |-> [painted |-> painted, rafQueue |-> rafQueue]]
  /\ budget' = budget - 1
  /\ deselected' = FALSE
  /\ inbox' = inbox
  /\ UNCHANGED <<pageVars, calcVars, phase, stored, currentConfig, hitRegionMap,
                 rendererMade, calculationAbortController, resizeDebounceTimer,
                 progressTimeouts, progressIndicator, unhandledRejections,
                 lastComplete>>

\* elementDeselected
ElementDeselected ==
  /\ ThreadFree
  /\ budget > 0
  /\ Settle(clearVisualization(Threaded), {}, phase = "ready")
  /\ last' = [task |-> "deselect"]
  /\ budget' = budget - 1
  /\ deselected' = TRUE
  /\ inbox' = inbox
  /\ UNCHANGED <<pageVars, calcVars, phase, stored, currentConfig, hitRegionMap,
                 rendererMade, calculationAbortController, resizeDebounceTimer,
                 progressTimeouts, progressIndicator, unhandledRejections,
                 lastComplete>>

\* A cancelCalculation message is sent to the tab while a pass keeps the
\* thread: the host queues it for the onMessage listener.
CancelRequested ==
  /\ pc = "calc"
  /\ caller # "direct"
  /\ calc.i < Len(calc.coordinates)
  /\ inbox = <<>>
  /\ budget > 0
  /\ inbox' = <<[type |-> "cancelCalculation", caller |-> caller, i |-> calc.i]>>
  /\ budget' = budget - 1
  /\ UNCHANGED <<pageVars, calcVars, moduleVars, rendererVars, last, burst,
                 lastComplete, deselected>>

\* cancelCalculation: a message sent now, or the queued one.
CancelCalculation ==
  /\ ThreadFree
  /\ IF inbox # <<>> THEN budget' = budget ELSE budget > 0 /\ budget' = budget - 1
  /\ inbox' = <<>>
  /\ IF calculationAbortController = "set"
       THEN /\ signal' = "aborted"
            /\ calculationAbortController' = "null"
            /\ progressIndicator' = FALSE
            /\ Settle(Hidden(Threaded), {}, phase = "ready")
       ELSE /\ UNCHANGED <<signal, calculationAbortController, progressIndicator,
                           currentlySelectedElement, rendererVars,
                           mutationDebounceTimer, burst>>
  /\ last' = [task |-> "cancel", cancelled |-> calculationAbortController = "set",
              sent |-> inbox, outcome |-> outcome]
  /\ UNCHANGED <<pageVars, pc, caller, calc, outcome, phase, stored, currentConfig,
                 hitRegionMap, rendererMade, resizeDebounceTimer, progressTimeouts,
                 unhandledRejections, lastComplete, deselected>>

\* ---- chrome.storage.onChanged (ConfigurationManager.startListening) and
\* the change listener initialize() registers
\* The listener, called with the old and the new stored record.
changeListener(oldConfig, newConfig) ==
  LET restyled ==
        \/ Get(oldConfig, "highlightColor") # Get(newConfig, "highlightColor")
        \/ Get(oldConfig, "highlightOpacity") # Get(newConfig, "highlightOpacity")
  IN /\ currentConfig' = <<newConfig>>
     /\ IF strictNotEqual(Get(oldConfig, "samplingResolution"),
                          Get(newConfig, "samplingResolution"))
          THEN /\ BeginPass("config", newConfig,
                    [NoBefore EXCEPT !.map = hitRegionMap,
                                     !.selected = currentlySelectedElement,
                                     !.restyled = restyled])
               /\ UNCHANGED <<currentlySelectedElement, rendererVars,
                              mutationDebounceTimer, burst>>
          ELSE /\ Settle(IF currentlySelectedElement # NoNode /\ restyled
                           THEN visualizeHitRegion(Threaded, currentlySelectedElement,
                                                   hitRegionMap, <<newConfig>>)
                           ELSE Threaded,
                         {}, TRUE)
               /\ UNCHANGED <<calcVars, calculationAbortController>>

StorageChanged ==
  /\ ThreadFree
  /\ phase = "ready"
  /\ budget > 0
  /\ \E newConfig \in StoredRecords \ {stored} :
       /\ stored' = newConfig
       /\ changeListener(stored, newConfig)
  /\ last' = [task |-> "storage"]
  /\ budget' = budget - 1
  /\ UNCHANGED <<pageVars, phase, hitRegionMap, rendererMade, resizeDebounceTimer,
                 progressTimeouts, progressIndicator, unhandledRejections,
                 lastComplete, deselected, inbox>>

\* The pass the listener started ended; calculateHitRegions() was called
\* without await or catch, so its rejection is nobody's.  The listener goes
\* on to the colour/opacity check.
ConfigEnd ==
  /\ pc = "calc"
  /\ caller = "config"
  /\ passEnd # <<>>
  /\ EndPass
  /\ unhandledRejections' =
       IF passEnd = Returned \/ unhandledRejections > 0 THEN unhandledRejections
       ELSE unhandledRejections + 1
  /\ Settle(IF currentlySelectedElement # NoNode /\ calc.before.restyled
              THEN visualizeHitRegion(Hidden(Threaded), currentlySelectedElement,
                                      hitRegionMap', currentConfig)
              ELSE Hidden(Threaded),
            {}, TRUE)
  /\ last' = [task |-> "configEnd", outcome |-> passEnd, before |-> calc.before]
  /\ UNCHANGED <<pageVars, phase, stored, currentConfig, rendererMade,
                 resizeDebounceTimer, budget>>

\* ---- the page changes
\* A script of the page changes the document; the MutationObserver, when
\* installed, gets the batch.  touched: the style properties the script
\* wrote (the record does not carry them).  "recolour" sets the colour of the
\* panel, which is positioned by its inline style.
PageMutations ==
  { [kind |-> "hideBtn", record |-> MutationRecord("attributes", "style", {"display"}),
     touched |-> {"display"}],
    [kind |-> "showBtn", record |-> MutationRecord("attributes", "style", {}),
     touched |-> {"display"}],
    [kind |-> "recolour",
     record |-> MutationRecord("attributes", "style", {"position", "color"}),
     touched |-> {"color"}],
    [kind |-> "removeBtn", record |-> MutationRecord("childList", NoAttr, {}),
     touched |-> {}],
    [kind |-> "addBtn", record |-> MutationRecord("childList", NoAttr, {}),
     touched |-> {}],
    [kind |-> "textNode", record |-> MutationRecord("childList", NoAttr, {}),
     touched |-> {}] }

PageMutation ==
  /\ ThreadFree
  /\ budget > 0
  /\ \E m \in PageMutations :
       /\ CASE m.kind = "hideBtn" ->
                 geometry = ButtonShown /\ geometry' = ButtonHidden /\ attached' = attached
            [] m.kind = "showBtn" ->
                 geometry = ButtonHidden /\ geometry' = ButtonShown /\ attached' = attached
            [] m.kind = "removeBtn" ->
                 "btn" \in attached /\ attached' = attached \ {"btn", "icon"}
                 /\ geometry' = geometry
            [] m.kind = "addBtn" ->
                 "btn" \notin attached /\ attached' = attached \cup {"btn", "icon"}
                 /\ geometry' = geometry
            [] OTHER -> attached' = attached /\ geometry' = geometry
       /\ Settle(Threaded, {m.record}, phase = "ready")
       /\ last' = [task |-> "mutation", kind |-> m.kind,
                   armed |-> observeMutations(mutationDebounceTimer, burst,
                                              {m.record}, phase = "ready").armed]
  /\ budget' = budget - 1
  /\ UNCHANGED <<viewport, dom, calcVars, phase, stored, currentConfig, hitRegionMap,
                 rendererMade, calculationAbortController, resizeDebounceTimer,
                 progressTimeouts, progressIndicator, unhandledRejections,
                 lastComplete, deselected, inbox>>

\* The window is resized; the ResizeObserver on document.body, when
\* installed, calls handleResize.
Resize ==
  /\ ThreadFree
  /\ budget > 0
  /\ \E v \in OrchViewports \ {viewport} : viewport' = v
  /\ IF phase = "ready"
       THEN /\ resizeDebounceTimer' = armDebounce(resizeDebounceTimer, ResizeDebounceMs)
            /\ burst' = Signalled(burst, "resize")
       ELSE UNCHANGED <<resizeDebounceTimer, burst>>
  /\ last' = [task |-> "resize"]
  /\ budget' = budget - 1
  /\ UNCHANGED <<dom, attached, geometry, calcVars, phase, stored, currentConfig,
                 hitRegionMap, rendererMade, currentlySelectedElement,
                 calculationAbortController, mutationDebounceTimer, progressTimeouts,
                 progressIndicator, unhandledRejections, rendererVars, lastComplete, deselected, inbox>>

\* ---- handlePageChanges()
RemoveAt(timers, k) == SubSeq(timers, 1, k - 1) \o SubSeq(timers, k + 1, Len(timers))

autoRecalculate ==
  currentConfig # <<>> /\ Get(currentConfig[1], "autoRecalculate") = <<TRUE>>

\* The map after hitRegionMap.clear(), when there is a map.
invalidated(map) == IF map = <<>> THEN <<>> ELSE <<clearMap(map[1])>>

\* What the overlay has pending when a trigger is handled without a rebuild
\* was computed before the trigger.
MarkStale(o) ==
  [o EXCEPT !.rafQueue = [k \in DOMAIN @ |-> [@[k] EXCEPT !.stale = TRUE]]]

\* handlePageChanges() run by the debounce timer of `source`, with the
\* renderer state `o` and the source's burst observation `fired`: to the end
\* when auto-recalculation is off, up to the loop of calculate otherwise.
HandlePageChanges(source, o, fired) ==
  /\ hitRegionMap' = invalidated(hitRegionMap)
  /\ IF autoRecalculate
       THEN /\ BeginPass("page", currentConfig[1],
                 [NoBefore EXCEPT !.map = invalidated(hitRegionMap),
                                  !.selected = currentlySelectedElement,
                                  !.fired = fired])
            /\ currentlySelectedElement' = o.selected
            /\ canvas' = o.canvas
            /\ painted' = o.painted
            /\ rafQueue' = o.rafQueue
            /\ last' = [task |-> "pageStart", fired |-> fired]
       ELSE /\ currentlySelectedElement' = NoNode
            /\ canvas' = o.canvas
            /\ painted' = clearVisualization(o).painted
            /\ rafQueue' = MarkStale(o).rafQueue
            /\ last' = [task |-> "pageEnd", auto |-> FALSE, fired |-> fired,
                        outcome |-> <<>>, selected |-> currentlySelectedElement,
                        wasAttached |-> contains(currentlySelectedElement)]
            /\ UNCHANGED <<calcVars, calculationAbortController>>

Fired(source) ==
  [source |-> source, signals |-> burst[source].signals,
   since |-> burst[source].since, late |-> burst[source].late]

Handled(b, source) ==
  [b EXCEPT ![source] = [signals |-> 0, since |-> 0, late |-> FALSE]]

\* The mutation debounce timer fires.
MutationTimerFires ==
  /\ ThreadFree
  /\ \E k \in DOMAIN mutationDebounceTimer :
       /\ mutationDebounceTimer[k] = 0
       /\ mutationDebounceTimer' = RemoveAt(mutationDebounceTimer, k)
  /\ HandlePageChanges("mutation", Threaded, Fired("mutation"))
  /\ burst' = Handled(burst, "mutation")
  /\ UNCHANGED <<pageVars, phase, stored, currentConfig, rendererMade,
                 resizeDebounceTimer, progressTimeouts, progressIndicator,
                 unhandledRejections, budget, lastComplete, deselected, inbox>>

\* The resize debounce timer fires: the canvas is resized first.
ResizeTimerFires ==
  /\ ThreadFree
  /\ \E k \in DOMAIN resizeDebounceTimer :
       /\ resizeDebounceTimer[k] = 0
       /\ resizeDebounceTimer' = RemoveAt(resizeDebounceTimer, k)
  /\ HandlePageChanges("resize",
                       IF rendererMade THEN updateDimensions(Threaded) ELSE Threaded,
                       Fired("resize"))
  /\ burst' = Handled(burst, "resize")
  /\ UNCHANGED <<pageVars, phase, stored, currentConfig, rendererMade,
                 mutationDebounceTimer, progressTimeouts, progressIndicator,
                 unhandledRejections, budget, lastComplete, deselected, inbox>>

\* The rebuild of handlePageChanges ended.  Normally: the tracked element
\* is visualized again, or dropped when it left the document.  On an error:
\* the catch block logs it.
PageEnd ==
  /\ pc = "calc"
  /\ caller = "page"
  /\ passEnd # <<>>
  /\ EndPass
  /\ LET selected == currentlySelectedElement
         o == Hidden(Threaded)
     IN Settle(IF passEnd # Returned \/ selected = NoNode THEN o
               ELSE IF contains(selected)
                 THEN visualizeHitRegion(o, selected, hitRegionMap', currentConfig)
               ELSE clearVisualization([o EXCEPT !.selected = NoNode]),
               {}, TRUE)
  /\ last' = [task |-> "pageEnd", auto |-> TRUE, fired |-> calc.before.fired,
              outcome |-> passEnd, selected |-> calc.before.selected,
              wasAttached |-> contains(calc.before.selected),
              before |-> calc.before]
  /\ UNCHANGED <<pageVars, phase, stored, currentConfig, rendererMade,
                 resizeDebounceTimer, unhandledRejections, budget>>

\* ---- host callbacks
\* An animation frame: the drawing callbacks renderHitRegion requested run.
AnimationFrame ==
  /\ ThreadFree
  /\ rafQueue # <<>>
  /\ painted' = IF canvas THEN drawAll(painted, rafQueue) ELSE painted
  /\ rafQueue' = <<>>
  /\ last' = [task |-> "frame"]
  /\ UNCHANGED <<pageVars, calcVars, moduleVars, canvas, budget, burst, lastComplete, deselected, inbox>>

\* A progress timeout that was never cleared fires: showProgressIndicator().
ProgressTimeoutFires ==
  /\ ThreadFree
  /\ 0 \in progressTimeouts
  /\ progressTimeouts' = progressTimeouts \ {0}
  /\ progressIndicator' = TRUE
  /\ Settle(IF progressIndicator THEN Threaded ELSE [Threaded EXCEPT !.wrote = TRUE],
            {}, phase = "ready")
  /\ last' = [task |-> "progress"]
  /\ UNCHANGED <<pageVars, calcVars, phase, stored, currentConfig, hitRegionMap,
                 rendererMade, calculationAbortController, resizeDebounceTimer,
                 unhandledRejections, budget, lastComplete, deselected, inbox>>

\* Time passes while the thread is idle; a timer that is due runs first, and
\* so does the animation frame of a drawing request (frames come every
\* 16 ms or so, a tick is TickMs).
Pending == {mutationDebounceTimer[k] : k \in DOMAIN mutationDebounceTimer}
             \cup {resizeDebounceTimer[k] : k \in DOMAIN resizeDebounceTimer}
             \cup progressTimeouts

Tick ==
  /\ ThreadFree
  /\ Pending # {}
  /\ 0 \notin Pending
  /\ rafQueue = <<>>
  /\ mutationDebounceTimer' = CountdownAll(mutationDebounceTimer, TickMs)
  /\ resizeDebounceTimer' = CountdownAll(resizeDebounceTimer, TickMs)
  /\ progressTimeouts' = {Countdown(t, TickMs) : t \in progressTimeouts}
  /\ burst' = Elapse(burst, TickMs, FALSE)
  /\ last' = [task |-> "tick"]
  /\ UNCHANGED <<pageVars, calcVars, phase, stored, currentConfig, hitRegionMap,
                 rendererMade, currentlySelectedElement, calculationAbortController,
                 progressIndicator, unhandledRejections, rendererVars, budget,
                 lastComplete, deselected, inbox>>

Next ==
  \/ InitContinue \/ Sample \/ InitEnd
  \/ ElementSelected \/ ElementDeselected \/ CancelRequested \/ CancelCalculation
  \/ StorageChanged \/ ConfigEnd
  \/ PageMutation \/ Resize
  \/ MutationTimerFires \/ ResizeTimerFires \/ PageEnd
  \/ AnimationFrame \/ ProgressTimeoutFires \/ Tick

Spec == Init /\ [][Next]_vars

\* ------------------------------------- HitRegionMap called directly
\* A caller holds one HitRegionMap (calc.hitRegionMap) and calls its methods
\* and getHitRegion in any order, with any arguments.
MaxWarnings == 2
MapCoordinates ==
  {createCoordinate(0, 0), createCoordinate(0, 7), createCoordinate(10, 0),
   createCoordinate(10, 7), createCoordinate(120, 45)}
\* The calls made: any coordinate for the button, two of them for the link
\* too, and calls without an element or without a coordinate.
MapCalls ==
  {[element |-> "btn", coord |-> c] : c \in MapCoordinates \cup {NoCoordinate}}
    \cup {[element |-> "link", coord |-> c] :
            c \in {createCoordinate(0, 0), createCoordinate(120, 45)}}
    \cup {[element |-> NoNode, coord |-> createCoordinate(0, 0)]}

\* getHitRegion(hitRegionMap, element); the map argument is <<>> (null) or
\* <<map>>.
getHitRegion(map, element) ==
  IF map = <<>> \/ element = NoNode THEN {}
  ELSE getCoordinates(map[1], element)

InitMap ==
  /\ viewport = [w |-> 20, h |-> 10]
  /\ dom = DefaultDom
  /\ attached = AllAttached
  /\ geometry = ButtonShown
  /\ pc = "map"
  /\ caller = "direct"
  /\ calc = NotCalculating
  /\ signal = "none"
  /\ outcome = <<>>
  /\ ContentScriptNotLoaded

\* hitRegionMap.addCoordinate(element, coord)
MapAdd ==
  /\ pc = "map"
  /\ \E call \in MapCalls :
     LET element == call.element
         coord == call.coord
     IN
       /\ addCoordinateWarns(calc.hitRegionMap, element, coord)
            => calc.warnings[element] < MaxWarnings
       /\ calc' = [calc EXCEPT
            !.hitRegionMap = addCoordinate(@, element, coord),
            !.warnings = IF addCoordinateWarns(calc.hitRegionMap, element, coord)
                           THEN [@ EXCEPT ![element] = @ + 1] ELSE @,
            !.accepted = IF addCoordinateReturns(calc.hitRegionMap, element, coord)
                           THEN [@ EXCEPT ![element] = @ \cup {coord}] ELSE @]
       /\ last' = [task |-> "add", element |-> element, coord |-> coord,
                   returned |-> addCoordinateReturns(calc.hitRegionMap, element, coord),
                   warned |-> addCoordinateWarns(calc.hitRegionMap, element, coord),
                   before |-> calc.hitRegionMap]
  /\ UNCHANGED <<pageVars, pc, caller, signal, outcome, moduleVars, rendererVars,
                 budget, burst, lastComplete, deselected, inbox>>

\* hitRegionMap.clear()
MapClear ==
  /\ pc = "map"
  /\ calc' = [calc EXCEPT !.hitRegionMap = clearMap(@),
                          !.warnings = [e \in Nodes |-> 0],
                          !.accepted = [e \in Nodes |-> {}]]
  /\ last' = [task |-> "clear", before |-> calc.hitRegionMap]
  /\ UNCHANGED <<pageVars, pc, caller, signal, outcome, moduleVars, rendererVars,
                 budget, burst, lastComplete, deselected, inbox>>

\* getHitRegion(hitRegionMap, element), with the map or null
MapGet ==
  /\ pc = "map"
  /\ \E element \in {"btn", "link", "icon", NoNode},
        map \in {<<>>, <<calc.hitRegionMap>>} :
       last' = [task |-> "get", element |-> element, map |-> map,
                returned |-> getHitRegion(map, element),
                afterClear |-> last.task = "clear" /\ last.before # NewHitRegionMap]
  /\ UNCHANGED <<pageVars, calcVars, moduleVars, rendererVars,
                 budget, burst, lastComplete, deselected, inbox>>

\* isValidCoordinate(input)
MapValidate ==
  /\ pc = "map"
  /\ \E input \in JsInputs :
       last' = [task |-> "validate", input |-> input,
                returned |-> isValidCoordinate(input)]
  /\ UNCHANGED <<pageVars, calcVars, moduleVars, rendererVars,
                 budget, burst, lastComplete, deselected, inbox>>

NextMap == MapAdd \/ MapClear \/ MapGet \/ MapValidate

SpecMap == InitMap /\ [][NextMap]_vars

\* ---- options/options.js and the content script it configures
\* What the form holds when Save is clicked: the text of the resolution
\* field, the text of the colour field, the slider's percentage and the
\* checkbox.
ResolutionTexts ==
  { <<>>, <<"a", "b", "c">>, <<"0">>, <<"7", ".", "5">>, <<"2", "0">>,
    <<"5", "0">>, <<"5", "1">>, <<"-", "3">> }
HexColors == {"#00ff00", "#ff0000"}
Forms ==
  { [resolution |-> r, color |-> c, opacity |-> 30, autoRecalculate |-> TRUE] :
      r \in ResolutionTexts, c \in {"#00ff00", "red"} }

\* The leading digits of a text.
RECURSIVE digitPrefix(_)
digitPrefix(s) ==
  IF s = <<>> \/ s[1] \notin {DigitChars[i] : i \in 1..10} THEN <<>>
  ELSE <<s[1]>> \o digitPrefix(Tail(s))

\* parseInt(text, 10) for a text without leading blanks: an optional minus,
\* then the digits up to the first other character; NaN without digits.
parseInt(s) ==
  LET negative == s # <<>> /\ s[1] = "-"
      digits == digitPrefix(IF negative THEN Tail(s) ELSE s)
  IN IF digits = <<>> THEN NaN
     ELSE NumberValue(IF negative THEN 0 - stringToNumber(digits)
                      ELSE stringToNumber(digits))

\* v < n and v > n for the number v: both false for NaN.
lessThan(v, n) == ~v.nan /\ v.value < n
greaterThan(v, n) == ~v.nan /\ v.value > n

\* parseInt(opacityInput.value, 10) / 100, as the model writes opacities.
percentage(p) == IF p = 30 THEN "0.3" ELSE IF p = 100 THEN "1" ELSE "0.5"

\* The config object the click handler builds from the form.
formConfig(form) ==
  [samplingResolution |-> parseInt(form.resolution),
   highlightColor |-> form.color,
   highlightOpacity |-> percentage(form.opacity),
   autoRecalculate |-> form.autoRecalculate]

\* The handler's validation: the text of the alert, <<>> when there is none.
saveAlert(form) ==
  LET config == formConfig(form) IN
    IF lessThan(config.samplingResolution, 1) \/ greaterThan(config.samplingResolution, 50)
      THEN <<"Sampling resolution must be between 1 and 50 pixels">>
    ELSE IF config.highlightColor \notin HexColors
      THEN <<"Invalid color format">>
    ELSE IF form.opacity < 0 \/ form.opacity > 100
      THEN <<"Opacity must be between 0 and 100%">>
    ELSE <<>>

\* How chrome.storage.sync.set stores a NaN, which JSON cannot express: as it
\* is, as null, or not at all, depending on the browser.
Serializations == {"kept", "null", "omitted"}
serialized(config, how) ==
  IF config.samplingResolution # NaN \/ how = "kept" THEN config
  ELSE IF how = "null" THEN [config EXCEPT !.samplingResolution = Null]
  ELSE [f \in DOMAIN config \ {"samplingResolution"} |-> config[f]]

\* The records the options page can have stored.
OptionsRecords ==
  { serialized(formConfig(form), how) :
      form \in {f \in Forms : saveAlert(f) = <<>>}, how \in Serializations }

\* The content script is loaded into a page after the options page was used.
InitOptions ==
  /\ viewport = [w |-> 20, h |-> 10]
  /\ dom = DefaultDom
  /\ attached = AllAttached
  /\ geometry = ButtonShown
  /\ ThreadFree
  /\ caller = "init"
  /\ calc = NotCalculating
  /\ signal = "none"
  /\ outcome = <<>>
  /\ phase = "loading"
  /\ stored \in OptionsRecords
  /\ currentConfig = <<>>
  /\ hitRegionMap = <<>>
  /\ rendererMade = FALSE
  /\ currentlySelectedElement = NoNode
  /\ calculationAbortController = "null"
  /\ mutationDebounceTimer = <<>>
  /\ resizeDebounceTimer = <<>>
  /\ progressTimeouts = {}
  /\ progressIndicator = FALSE
  /\ unhandledRejections = 0
  /\ canvas = FALSE
  /\ painted = {}
  /\ rafQueue = <<>>
  /\ budget = MaxEvents
  /\ last = [task |-> "none"]
  /\ burst = NoBurst
  /\ lastComplete = <<>>
  /\ deselected = FALSE
  /\ inbox = <<>>

\* The click handler of the Save button, in the options page: the record is
\* stored unless a check alerts, and the change is announced to the tab.
SaveClicked ==
  /\ budget > 0
  /\ inbox = <<>>
  /\ \E form \in Forms, how \in Serializations :
       LET record == serialized(formConfig(form), how)
           saved == saveAlert(form) = <<>>
       IN /\ stored' = IF saved THEN record ELSE stored
          /\ inbox' = IF saved /\ record # stored
                        THEN <<[type |-> "storageChanged", oldValue |-> stored,
                                newValue |-> record]>>
                        ELSE <<>>
          /\ last' = [task |-> "save", form |-> form, alert |-> saveAlert(form),
                      saved |-> saved]
  /\ budget' = budget - 1
  /\ UNCHANGED <<pageVars, calcVars, phase, currentConfig, hitRegionMap,
                 rendererMade, currentlySelectedElement, calculationAbortController,
                 mutationDebounceTimer, resizeDebounceTimer, progressTimeouts,
                 progressIndicator, unhandledRejections, rendererVars, burst,
                 lastComplete, deselected>>

\* The tab gets the announcement: chrome.storage.onChanged calls the change
\* listener once initialize() has registered it; before, nobody listens.
StorageDelivered ==
  /\ ThreadFree
  /\ inbox # <<>>
  /\ inbox[1].type = "storageChanged"
  /\ inbox' = <<>>
  /\ IF phase = "ready"
       THEN changeListener(inbox[1].oldValue, inbox[1].newValue)
       ELSE UNCHANGED <<currentConfig, calcVars, calculationAbortController,
                        currentlySelectedElement, rendererVars,
                        mutationDebounceTimer, burst>>
  /\ last' = [task |-> "storage"]
  /\ UNCHANGED <<pageVars, phase, stored, hitRegionMap, rendererMade,
                 resizeDebounceTimer, progressTimeouts, progressIndicator,
                 unhandledRejections, budget, lastComplete, deselected>>

NextOptions ==
  \/ InitContinue \/ Sample \/ InitEnd
  \/ SaveClicked \/ StorageDelivered \/ ConfigEnd
  \/ ResizeTimerFires \/ PageEnd \/ Tick

SpecOptions == InitOptions /\ [][NextOptions]_vars

\* ---- the content script in a window wide enough for button and link
\* As Init, with the viewport 30 wide: the grid has a point on the link, so
\* two elements have hit regions after the initial pass.
InitWide ==
  /\ viewport = [w |-> 30, h |-> 10]
  /\ dom = DefaultDom
  /\ attached = AllAttached
  /\ geometry = ButtonShown
  /\ ThreadFree
  /\ caller = "init"
  /\ calc = NotCalculating
  /\ signal = "none"
  /\ outcome = <<>>
  /\ phase = "loading"
  /\ stored \in StoredRecords
  /\ currentConfig = <<>>
  /\ hitRegionMap = <<>>
  /\ rendererMade = FALSE
  /\ currentlySelectedElement = NoNode
  /\ calculationAbortController = "null"
  /\ mutationDebounceTimer = <<>>
  /\ resizeDebounceTimer = <<>>
  /\ progressTimeouts = {}
  /\ progressIndicator = FALSE
  /\ unhandledRejections = 0
  /\ canvas = FALSE
  /\ painted = {}
  /\ rafQueue = <<>>
  /\ budget = MaxEvents
  /\ last = [task |-> "none"]
  /\ burst = NoBurst
  /\ lastComplete = <<>>
  /\ deselected = FALSE
  /\ inbox = <<>>

\* The initial pass, then selection messages and animation frames.
NextOverlay ==
  \/ InitContinue \/ Sample \/ InitEnd
  \/ ElementSelected \/ ElementDeselected \/ AnimationFrame

SpecOverlay == InitWide /\ [][NextOverlay]_vars

\* ---- the content script with its host's scheduling
\* The host runs what is ready: a pass that holds the thread goes on to its
\* end, a timer that is due fires, a requested animation frame comes, the
\* awaited configuration load resolves, and time passes.  Nothing is assumed
\* about the page, the user or the options page.
Fairness ==
  /\ WF_vars(InitContinue) /\ WF_vars(Sample)
  /\ WF_vars(InitEnd) /\ WF_vars(ConfigEnd) /\ WF_vars(PageEnd)
  /\ WF_vars(MutationTimerFires) /\ WF_vars(ResizeTimerFires)
  /\ WF_vars(ProgressTimeoutFires) /\ WF_vars(AnimationFrame) /\ WF_vars(Tick)

SpecLive == Spec /\ Fairness

\* ================================================================ properties
\* ---- calculate called directly (SpecCalc)
DirectReturned == pc = "done" /\ caller = "direct" /\ outcome = Returned

AllKeys(m) ==
  DOMAIN m.coordinateToElement
    \cup UNION {m.elementToCoordinates[e] : e \in DOMAIN m.elementToCoordinates}

Mirror(m) ==
  \A key \in AllKeys(m), e \in Nodes :
    (key \in DOMAIN m.coordinateToElement /\ m.coordinateToElement[key] = e)
      <=> key \in coordinatesOf(m, e)

\* C1: when calculate returns, coordinateToElement[c] = e exactly when c is
\* in elementToCoordinates[e], for every key c and element e, also when an
\* element reached the per-element cap.
C1_IndexMirror == DirectReturned => Mirror(calc.hitRegionMap)

\* Grid positions whose sample resolves to e.
SamplesOf(e) ==
  {k \in 1..Len(calc.coordinates) :
     sampleCoordinate(calc.coordinates[k].x, calc.coordinates[k].y) = e}

\* C1 witness: calculate returned, and an element is at the cap with further
\* grid points of its region dropped.
C1_CapReached ==
  /\ DirectReturned
  /\ \E e \in Nodes :
       /\ Cardinality(coordinatesOf(calc.hitRegionMap, e)) = MaxCoordinatesPerElement
       /\ Cardinality(SamplesOf(e)) > MaxCoordinatesPerElement

\* The ancestor chain of a node, the node included.
RECURSIVE AncestorsOrSelf(_)
AncestorsOrSelf(n) ==
  IF n = NoNode THEN {} ELSE {n} \cup AncestorsOrSelf(parentElement(n))

\* The nearest of the interactive nodes of `within` on the chain of n.
NearestIn(n, within) ==
  LET candidates == {a \in AncestorsOrSelf(n) \cap within : isInteractive(a)} IN
    IF candidates = {} THEN NoNode
    ELSE CHOOSE a \in candidates : \A b \in candidates : b \in AncestorsOrSelf(a)

\* The element grid position k belongs to: none when the hit test throws,
\* finds nothing or finds a node that left the document.
OwnerAt(k, within) ==
  LET hit == elementFromPoint(calc.coordinates[k].x, calc.coordinates[k].y) IN
    IF hit \notin Nodes \/ hit \notin attached THEN NoNode
    ELSE NearestIn(hit, within)

RegionOf(e, within) == {k \in 1..Len(calc.coordinates) : OwnerAt(k, within) = e}

\* The first MaxCoordinatesPerElement positions of a region, in grid order.
Capped(region) ==
  {k \in region :
     Cardinality({j \in region : j < k}) < MaxCoordinatesPerElement}

BelowRoot == Nodes \ {documentElement}

\* C2 (amended): when calculate returns, each element below the document
\* root element maps to the first maxCoordinatesPerElement grid points, in
\* grid order, whose hit-test node is in the document and has that element
\* as its nearest interactive ancestor (inclusive) below the root element;
\* coordinateToElement holds exactly those points, and no other element has
\* an entry.
C2_RegionsCapped ==
  DirectReturned =>
    LET m == calc.hitRegionMap IN
      /\ \A e \in Nodes :
           coordinatesOf(m, e) =
             {coordToKey(calc.coordinates[k]) : k \in Capped(RegionOf(e, BelowRoot))}
      /\ m.elements = {e \in Nodes : RegionOf(e, BelowRoot) # {}}
      /\ DOMAIN m.elementToCoordinates = m.elements
      /\ \A k \in 1..Len(calc.coordinates) :
           LET key == coordToKey(calc.coordinates[k])
               e == OwnerAt(k, BelowRoot)
           IN IF e # NoNode /\ k \in Capped(RegionOf(e, BelowRoot))
                THEN key \in DOMAIN m.coordinateToElement
                     /\ m.coordinateToElement[key] = e
                ELSE key \notin DOMAIN m.coordinateToElement

\* The scenario of the claim: viewport 100x100, resolution 50, a button
\* over [0,60)x[0,60), calculate returned.
Scenario ==
  /\ DirectReturned
  /\ viewport = [w |-> 100, h |-> 100]
  /\ calc.resolution = 50
  /\ dom = DefaultDom
  /\ geometry.btn = 60

\* C2 witness: in the scenario the button has all four grid points, (50,50)
\* included, which lies inside [0,60)x[0,60).
C2_Scenario ==
  /\ Scenario
  /\ getCoordinates(calc.hitRegionMap, "btn")
       = {createCoordinate(0, 0), createCoordinate(0, 50),
          createCoordinate(50, 0), createCoordinate(50, 50)}
  /\ calc.hitRegionMap.coordinateToElement[coordToKey(createCoordinate(50, 50))] = "btn"

\* C2 as stated: each element maps to exactly the grid points whose hit-test
\* node has it as nearest interactive ancestor (inclusive), points that
\* resolve to none have no entry, and in the scenario the button has (0,0),
\* (0,50), (50,0) and (50,50) has no element.
C2_RegionsExact ==
  DirectReturned =>
    LET m == calc.hitRegionMap IN
      /\ \A e \in Nodes :
           getCoordinates(m, e) = {calc.coordinates[k] : k \in RegionOf(e, Nodes)}
      /\ \A k \in 1..Len(calc.coordinates) :
           OwnerAt(k, Nodes) = NoNode
             => coordToKey(calc.coordinates[k]) \notin DOMAIN m.coordinateToElement
      /\ Scenario =>
           /\ getCoordinates(m, "btn")
                = {createCoordinate(0, 0), createCoordinate(0, 50),
                   createCoordinate(50, 0)}
           /\ coordToKey(createCoordinate(50, 50)) \notin DOMAIN m.coordinateToElement

DirectDone == pc = "done" /\ caller = "direct"
MidPass == calc.i < Len(calc.coordinates)

PassEnded ==
  /\ pc = "idle"
  /\ last.task \in {"initEnd", "configEnd", "pageEnd"}
  /\ last.outcome # <<>>

PassAborted == PassEnded /\ last.outcome # Returned

TimerFired ==
  \/ last.task = "pageStart"
  \/ last.task = "pageEnd" /\ ~last.auto

SettleWindow(source) ==
  IF source = "resize" THEN ResizeDebounceMs ELSE MutationDebounceMs

PendingTimers(source) ==
  IF source = "resize" THEN resizeDebounceTimer ELSE mutationDebounceTimer

C7_TextNodeIgnored ==
  last.task = "mutation" /\ last.kind = "textNode" => ~last.armed

\* handlePageChanges just finished a trigger with auto-recalculation on,
\* while an element was visualized.
RebuildHandled ==
  /\ pc = "idle"
  /\ last.task = "pageEnd"
  /\ last.auto
  /\ last.selected # NoNode

\* The drawing request the renderer got last.
LastRequest == rafQueue[Len(rafQueue)]

\* C8: after a rebuild that completed normally, a visualized element that
\* is still in the document is still the tracked element, and the renderer
\* was asked to draw exactly its coordinates in the new Index.
C8_TrackedAcrossRebuild ==
  RebuildHandled /\ last.outcome = Returned /\ last.wasAttached =>
    /\ currentlySelectedElement = last.selected
    /\ LET coordinates == getCoordinates(hitRegionMap[1], last.selected) IN
         IF coordinates = {} THEN painted = {}
         ELSE /\ rafQueue # <<>>
              /\ LastRequest.element = last.selected
              /\ LastRequest.coords = coordinates

\* C9: after a trigger handled with auto-recalculation on, a visualized
\* element that is no longer in the document is not tracked any more and
\* the overlay is cleared.
C9_DetachedDropped ==
  RebuildHandled /\ ~last.wasAttached =>
    /\ currentlySelectedElement = NoNode
    /\ painted = {}

\* C10: with auto-recalculation off a handled trigger starts no pass,
\* empties the Index and clears the visualization, and the overlay never
\* shows coordinates computed before such a trigger.
C10_NoStaleDrawing ==
  /\ last.task = "pageEnd" /\ ~last.auto =>
       /\ pc = "idle"
       /\ hitRegionMap = <<>> \/ hitRegionMap[1] = NewHitRegionMap
       /\ currentlySelectedElement = NoNode
       /\ painted = {}
  /\ \A shown \in painted : ~shown.stale

\* C11: from the handling of an elementDeselected request until the next
\* elementSelected/elementHovered request is handled, the overlay shows
\* nothing, whenever the pending animation-frame callbacks run.
C11_NothingShownWhileDeselected == deselected => painted = {}

\* C12: when the rebuild of a debounced trigger fails while an element is
\* visualized, the overlay is cleared by the time the handler has finished.
C12_FailureClearsOverlay ==
  RebuildHandled /\ last.outcome # Returned => painted = {}

\* C13: no failure of a pass is left as an unhandled rejection, whoever
\* called calculateHitRegions.
C13_NoUnhandledRejection == unhandledRejections = 0

\* A debounce timer is due.
TimerDue ==
  \/ \E k \in DOMAIN mutationDebounceTimer : mutationDebounceTimer[k] = 0
  \/ \E k \in DOMAIN resizeDebounceTimer : resizeDebounceTimer[k] = 0

ResolutionChangeHandled ==
  /\ pc = "idle"
  /\ last.task = "configEnd"
  /\ last.before.selected # NoNode
  /\ contains(last.before.selected)

\* C15: when the handler of a samplingResolution change has finished, the
\* Index is the one built at the new resolution and the renderer was asked
\* to draw the visualized element's coordinates in it.
C15_ResolutionChangeSettles ==
  ResolutionChangeHandled =>
    /\ last.outcome = Returned
    /\ hitRegionMap = lastComplete
    /\ LET coordinates == getCoordinates(hitRegionMap[1], last.before.selected) IN
         IF coordinates = {} THEN painted = {}
         ELSE /\ rafQueue # <<>>
              /\ LastRequest.element = last.before.selected
              /\ LastRequest.coords = coordinates

\* ---- calculate called directly (SpecCalc), the samples that fail
\* The hit test at grid position k throws, finds no node or finds a node
\* that is not in the document.
BadSampleAt(k) ==
  LET hit == elementFromPoint(calc.coordinates[k].x, calc.coordinates[k].y) IN
    hit \notin Nodes \/ hit \notin attached

\* The Index a pass over `points` alone builds.
RECURSIVE IndexOver(_)
IndexOver(points) ==
  IF points = <<>> THEN NewHitRegionMap
  ELSE sampleInto(IndexOver(SubSeq(points, 1, Len(points) - 1)), points[Len(points)])

\* The grid points, in grid order, whose sample does not fail.
OtherPoints ==
  LET good(k) == ~BadSampleAt(k)
      RECURSIVE upTo(_)
      upTo(k) == IF k = 0 THEN <<>>
                 ELSE IF good(k) THEN Append(upTo(k - 1), calc.coordinates[k])
                 ELSE upTo(k - 1)
  IN upTo(Len(calc.coordinates))

NoElementRequested ==
  /\ last.task = "select"
  /\ ~last.valid \/ last.node \notin Nodes \cap attached

\* C17: such a request is answered success:false with error "Element not
\* found", and hitRegionMap, currentlySelectedElement and what is drawn or
\* about to be drawn stay as they were.
C17_NoElementNoChange ==
  NoElementRequested =>
    /\ last.response = [success |-> FALSE, error |-> "Element not found"]
    /\ hitRegionMap = last.before.map
    /\ currentlySelectedElement = last.before.selected
    /\ painted = last.shown.painted
    /\ rafQueue = last.shown.rafQueue

\* ---- calculate called directly (SpecCalc), the grid
CeilDiv(a, b) == (a + b - 1) \div b

\* calculate was called: its grid is generateCoordinateGrid(resolution) on
\* the viewport at hand.
GridGenerated == pc \in {"calc", "done"} /\ caller = "direct"

\* What a grid of a w x h viewport at resolution r is to be.
GridShape(grid, w, h, r) ==
  /\ Len(grid) = CeilDiv(w, r) * CeilDiv(h, r)
  /\ \A j, k \in 1..Len(grid) : grid[j] = grid[k] => j = k
  /\ \A k \in 1..Len(grid) :
       /\ 0 <= grid[k].x /\ grid[k].x < w
       /\ 0 <= grid[k].y /\ grid[k].y < h
       /\ grid[k].x % r = 0
       /\ grid[k].y % r = 0
  /\ r >= w /\ r >= h => grid = <<createCoordinate(0, 0)>>

\* Every viewport of sides up to GridMaxSide at every resolution up to one
\* more than that.
GridMaxSide == 6
SmallGrids ==
  \A w \in 1..GridMaxSide, h \in 1..GridMaxSide, r \in 1..(GridMaxSide + 1) :
    GridShape(gridFrom(0, r, w, h), w, h, r)

\* C18: the grid of a W x H viewport at resolution r has
\* ceil(W/r) * ceil(H/r) points, all distinct, each inside the viewport with
\* both components multiples of r; it is the single point (0,0) when r >= W
\* and r >= H; and generating it again gives the same points in the same
\* order.
C18_GridShape ==
  /\ SmallGrids
  /\ GridGenerated =>
       /\ GridShape(calc.coordinates, viewport.w, viewport.h, calc.resolution)
       /\ generateCoordinateGrid(calc.resolution) = calc.coordinates

\* C18 witness: a 120 x 50 viewport at resolution 30, which divides neither
\* side, has 4 * 2 points.
C18_RaggedGrid ==
  /\ GridGenerated
  /\ viewport = [w |-> 120, h |-> 50]
  /\ calc.resolution = 30
  /\ Len(calc.coordinates) = 8

\* ---- the classifier on the pages of SpecCalc
\* C19: findInteractiveAncestor(n) is the interactive node nearest to n on
\* its ancestor chain, n included: n itself when n is interactive, the
\* parent when parent and grandparent are interactive and n is not, and none
\* when the chain has no interactive node or n is not an element.
C19_NearestOnChain ==
  /\ \A n \in Nodes : findInteractiveAncestor(n) = NearestIn(n, Nodes)
  /\ \A n \in Nodes : isInteractive(n) => findInteractiveAncestor(n) = n
  /\ \A n \in Nodes :
       LET parent == parentElement(n) IN
         /\ ~isInteractive(n)
         /\ parent # NoNode /\ isInteractive(parent)
         /\ parentElement(parent) # NoNode /\ isInteractive(parentElement(parent))
         => findInteractiveAncestor(n) = parent
  /\ \A n \in {NoNode, TextNode} : findInteractiveAncestor(n) = NoNode

\* The role an element has when its role attribute, if it has one, decides
\* alone.
RoleByAttribute(d) ==
  IF d.role # NoAttr THEN d.role
  ELSE IF d.tag = "button" THEN "button"
  ELSE IF d.tag = "input" /\ d.type \in {"button", "submit", "reset", "image"}
    THEN "button"
  ELSE IF d.tag \in {"a", "area"} /\ d.href THEN "link"
  ELSE NoAttr

\* C20: isInteractive(n) exactly when n is an element whose role (the role
\* attribute if present, the implicit role otherwise) is button or link and
\* whose pointer-events is not none; never for null or a text node.
C20_InteractiveIffRole ==
  /\ \A n \in Nodes :
       isInteractive(n) <=>
         /\ RoleByAttribute(dom[n]) \in {"button", "link"}
         /\ dom[n].pe # "none"
  /\ \A n \in {NoNode, TextNode} : ~isInteractive(n)

\* ---- HitRegionMap called directly (SpecMap)
\* C21: no element ever holds more than maxCoordinatesPerElement
\* coordinates; addCoordinate on an element at the cap returns false and
\* leaves elementToCoordinates and coordinateToElement as they were.
C21_CapHolds ==
  /\ \A e \in Nodes :
       Cardinality(coordinatesOf(calc.hitRegionMap, e)) <= MaxCoordinatesPerElement
  /\ last.task = "add" /\ last.element # NoNode
       /\ Cardinality(coordinatesOf(last.before, last.element)) = MaxCoordinatesPerElement
     => /\ ~last.returned
        /\ calc.hitRegionMap.elementToCoordinates = last.before.elementToCoordinates
        /\ calc.hitRegionMap.coordinateToElement = last.before.coordinateToElement

\* C21 witness: a new coordinate was offered for an element at the cap.
C21_RejectedAtCap ==
  /\ last.task = "add"
  /\ last.element # NoNode
  /\ last.coord # NoCoordinate
  /\ Cardinality(coordinatesOf(last.before, last.element)) = MaxCoordinatesPerElement
  /\ coordToKey(last.coord) \notin DOMAIN last.before.coordinateToElement

\* C22: for each element the cap warning is emitted at most once, however
\* many addCoordinate calls are made for it once it is at the cap.
C22_WarnedOnce == \A e \in Nodes : calc.warnings[e] <= 1

\* ---- calculate called directly (SpecCalc), progress reports
\* The sample indices that begin each successive tenth of n points.
TenthStarts(n) == {CeilDiv(k * n, 10) : k \in 0..9}

\* C23: a pass with an onProgress callback that runs to completion calls it
\* exactly at the indices that begin each successive 10% of its N points: at
\* least once, at most ten times, whatever N >= 1 is.
C23_ProgressEveryTenth ==
  DirectReturned /\ calc.onProgress /\ Len(calc.coordinates) >= 1 =>
    /\ calc.progressCalls = TenthStarts(Len(calc.coordinates))
    /\ calc.progressCalls # {}
    /\ Cardinality(calc.progressCalls) <= 10

\* C24: getHitRegion(index, element) returns a sequence in every case: the
\* empty one when the index or the element is null, when the element has no
\* coordinates recorded, and once the index was cleared; otherwise the
\* coordinates whose keys are in elementToCoordinates[element], and nothing
\* else.
C24_HitRegionOfElement ==
  last.task = "get" =>
    /\ last.map = <<>> \/ last.element = NoNode => last.returned = {}
    /\ last.map # <<>> /\ last.element # NoNode =>
         /\ last.returned \subseteq MapCoordinates
         /\ \A c \in MapCoordinates :
              c \in last.returned
                <=> coordToKey(c) \in coordinatesOf(last.map[1], last.element)
    /\ last.afterClear => last.returned = {}

\* C24 witness: the hit region of an element with two recorded coordinates,
\* one of them (120,45), was read.
C24_RegionRead ==
  /\ last.task = "get"
  /\ last.element = "link"
  /\ last.returned = {createCoordinate(0, 0), createCoordinate(120, 45)}

\* Components a coordinate is tried with: one to four digits, with zeros
\* inside and at the end.
KeyNumbers == {0, 1, 7, 9, 10, 11, 45, 99, 100, 101, 110, 120, 1080, 1920}
KeyCoordinates == {createCoordinate(x, y) : x, y \in KeyNumbers}

RoundTrips == \A c \in KeyCoordinates : keyToCoord(coordToKey(c)) = c
KeysDistinct ==
  \A c, d \in KeyCoordinates : coordToKey(c) = coordToKey(d) => c = d

\* C25: keyToCoord(coordToKey(c)) = c for coordinates of non-negative
\* integers, distinct coordinates have distinct keys, and getCoordinates(e)
\* is the set of coordinates addCoordinate accepted for e since the map was
\* created or cleared.
C25_KeyRoundTrip ==
  /\ RoundTrips
  /\ KeysDistinct
  /\ pc = "map" =>
       \A e \in Nodes : getCoordinates(calc.hitRegionMap, e) = calc.accepted[e]

\* C25 witness: coordinates were added for two elements, (120,45) among
\* them, and one was refused at the cap.
C25_AddedAndRead ==
  /\ pc = "map"
  /\ Cardinality(calc.accepted["btn"]) = MaxCoordinatesPerElement
  /\ createCoordinate(120, 45) \in calc.accepted["link"]
  /\ last.task = "add" /\ ~last.returned /\ last.element = "btn"
  /\ last.coord # NoCoordinate /\ last.coord \notin calc.accepted["btn"]

\* A finite number.
FiniteNumber(v) == v.typeof = "number" /\ v.is \in {"0", "7", "-3", "1.5"}

\* C26: isValidCoordinate returns true for an object whose x and y are both
\* finite numbers, and false for anything else: null, undefined, a value
\* that is not an object, a component that is missing, not a number, NaN or
\* an infinity.
C26_ValidIffFinite ==
  last.task = "validate" =>
    (last.returned <=>
       /\ last.input.is = "object"
       /\ FiniteNumber(last.input.x)
       /\ FiniteNumber(last.input.y))

\* C26 witness: an object with a finite x and an infinite y was refused.
C26_InfiniteRefused ==
  /\ last.task = "validate"
  /\ last.input = JsObject(JsValue("number", "1.5"), JsValue("number", "-Infinity"))
  /\ ~last.returned

\* ---- the content script (Spec), what the Index keeps alive
\* C27: an element with entries in the Index the content script holds, once
\* removed from the document and no longer tracked, is not strongly
\* referenced from that Index.
C27_IndexHoldsWeakly ==
  hitRegionMap # <<>> =>
    \A e \in Nodes \ attached :
      /\ coordinatesOf(hitRegionMap[1], e) # {}
      /\ currentlySelectedElement # e
      => e \notin strongReferences(hitRegionMap[1])

\* ---- the content script (Spec), cancelling a pass
\* C28: a cancelCalculation request sent while a pass of calculateHitRegions
\* was running is answered cancelled:true, and that pass ended with the
\* cancelled outcome.
C28_CancelDuringPass ==
  last.task = "cancel" /\ last.sent # <<>> =>
    /\ last.cancelled
    /\ last.outcome = CancelledMessage

\* ---- the content script (Spec), the progress indicator
\* C29: a pass of calculateHitRegions that ran for 500 ms or more had the
\* progress indicator in the page when it ended, and whenever no pass is
\* running the indicator is not in the page.
C29_IndicatorWhileRunning ==
  /\ [][pc = "calc" /\ pc' # "calc" /\ calc.elapsed >= ProgressDelayMs
          => progressIndicator]_vars
  /\ [](pc # "calc" => ~progressIndicator)

\* ---- the options page and the content script (SpecOptions)
InRange(field) == field \in {<<NumberValue(n)>> : n \in 1..100}

\* C30: the samplingResolution calculateHitRegions passes to calculate is an
\* integer in 1..100, and so is the samplingResolution of the record the
\* options page has just stored.
C30_ResolutionInRange ==
  /\ pc \in {"calc", "hung"} /\ caller # "direct" => InRange(calc.passed)
  /\ last.task = "save" /\ last.saved => InRange(Get(stored, "samplingResolution"))

\* ---- the classifier at the document root and with explicit roles (SpecCalc)
\* C31: when the document root element is the only interactive node on the
\* chain from a node to the root, findInteractiveAncestor returns the root
\* element.
C31_RootReturned ==
  \A n \in Nodes \ {"stale"} :
    {a \in AncestorsOrSelf(n) : isInteractive(a)} = {documentElement}
      => findInteractiveAncestor(n) = documentElement

\* C32: an element that carries a role attribute is interactive exactly when
\* that attribute is button or link (and pointer-events is not none),
\* whatever its implicit role.
C32_ExplicitRoleDecides ==
  \A n \in Nodes :
    dom[n].role # NoAttr =>
      (isInteractive(n) <=> dom[n].role \in {"button", "link"} /\ dom[n].pe # "none")

\* ---- the content script (Spec), which mutations count
\* The page change the last task was about.
LastMutation == CHOOSE m \in PageMutations : m.kind = last.kind

\* C33: a change of the page arms the mutation timer exactly when it adds or
\* removes a node, changes a class or role attribute, or writes a style
\* property of pointer interaction or positioning; the properties the target
\* already had do not matter.
C33_RelevantIffTouched ==
  last.task = "mutation" /\ phase = "ready" =>
    (last.armed <=>
       \/ LastMutation.record.type = "childList"
       \/ LastMutation.record.attributeName \in {"class", "role"}
       \/ /\ LastMutation.record.attributeName = "style"
          /\ LastMutation.touched \cap LayoutStyleProperties # {})

\* ---- HitRegionMap called directly (SpecMap), any order of calls
\* C34: after any addCoordinate and clear calls, each coordinate's element
\* has that coordinate in its own set and elementCount is the number of
\* elements with an entry; a successful add makes its element the one
\* getElement returns for the coordinate and changes no other coordinate's
\* element, a refused add changes none; repeating an add changes nothing.
C34_IndexConsistent ==
  /\ [](pc = "map" =>
          /\ \A key \in DOMAIN calc.hitRegionMap.coordinateToElement :
               key \in coordinatesOf(calc.hitRegionMap,
                                     calc.hitRegionMap.coordinateToElement[key])
          /\ getStats(calc.hitRegionMap).elementCount
               = Cardinality(DOMAIN calc.hitRegionMap.elementToCoordinates))
  /\ [][pc = "map" /\ last'.task = "add" =>
          /\ \A c \in MapCoordinates :
               getElement(calc'.hitRegionMap, c) =
                 IF last'.returned /\ c = last'.coord THEN last'.element
                 ELSE getElement(calc.hitRegionMap, c)
          /\ addCoordinate(calc'.hitRegionMap, last'.element, last'.coord)
               = calc'.hitRegionMap]_vars

\* C34 witness: the link was added at (0,0) after the button had been;
\* getElement gives the link, and the button's set still has the point.
C34_SecondElementWins ==
  /\ pc = "map"
  /\ last.task = "add"
  /\ last.element = "link"
  /\ last.returned
  /\ last.coord = createCoordinate(0, 0)
  /\ getElement(last.before, last.coord) = "btn"
  /\ getElement(calc.hitRegionMap, last.coord) = "link"
  /\ coordToKey(last.coord) \in coordinatesOf(calc.hitRegionMap, "btn")

\* ---- the content script in a wide window (SpecOverlay)
\* C35: the overlay never shows the coordinates of two elements together,
\* and what it shows belongs to the element visualized last.
C35_OneElementShown ==
  /\ Cardinality({shown.element : shown \in painted}) <= 1
  /\ \A shown \in painted :
       currentlySelectedElement # NoNode => shown.element = currentlySelectedElement

\* ---- the content script (Spec), the configuration it acts on
\* C36: once the change listener has been called for a storage change,
\* currentConfig is the stored record merged over the defaults, so a record
\* without autoRecalculate leaves auto-recalculation on.
C36_ActsOnMergedConfig ==
  /\ last.task = "storage" => currentConfig = <<Merge(DEFAULT_CONFIG, stored)>>
  /\ phase = "ready" => (autoRecalculate <=> Merge(DEFAULT_CONFIG, stored).autoRecalculate)

EarlyRequest ==
  /\ phase = "loading"
  /\ pc = "idle"
  /\ last.task \in {"select", "deselect", "cancel"}

\* C38: a selection, deselection or cancel request handled while the
\* configuration load is awaited raises nothing, draws nothing, is answered
\* (a selection with success false, a cancel with cancelled false) and
\* leaves the content script as it was, so initialization goes on as if the
\* request had not come.
C38_EarlyRequestHarmless ==
  /\ [](EarlyRequest =>
          /\ unhandledRejections = 0
          /\ ~canvas /\ painted = {} /\ rafQueue = <<>>
          /\ currentlySelectedElement = NoNode
          /\ currentConfig = <<>> /\ hitRegionMap = <<>> /\ ~rendererMade
          /\ calculationAbortController = "null"
          /\ mutationDebounceTimer = <<>> /\ resizeDebounceTimer = <<>>
          /\ last.task = "select" => ~last.success /\ ~last.response.success
          /\ last.task = "cancel" => ~last.cancelled)
  /\ [][/\ phase = "loading" /\ pc = "idle"
        /\ last'.task \in {"select", "deselect", "cancel"}
        => UNCHANGED <<pageVars, calcVars, moduleVars, rendererVars>>]_vars

\* C38 witness: a request for the button, which is in the document, was
\* handled before the configuration was loaded.
C38_SelectWhileLoading ==
  /\ EarlyRequest
  /\ last.task = "select"
  /\ last.found
  /\ last.node = "btn"
  /\ ~last.response.success

\* ---- the content script under fair scheduling (SpecLive)
Quiescent ==
  /\ pc = "idle"
  /\ mutationDebounceTimer = <<>>
  /\ resizeDebounceTimer = <<>>

\* C39: the content script eventually stays quiescent, with no pass running
\* and no debounce timer armed (the events from outside are finitely many).
C39_EventuallyQuiescent == <>[]Quiescent

\* ---- termination of a pass started from the stored configuration (SpecOptions)
\* C40: every pass terminates.  generateCoordinateGrid returns for every
\* samplingResolution the store hands to calculateHitRegions, so no pass stays
\* in the grid loop; the loop of calculate then takes the grid points one by
\* one, in order, never beyond the last, and leaves only by returning or
\* throwing.
C40_PassTerminates ==
  /\ [](pc # "hung")
  /\ [](pc = "calc" => calc.i <= Len(calc.coordinates))
  /\ [][pc = "calc" /\ calc' # calc =>
          /\ pc' = "calc"
          /\ calc'.i = calc.i + 1
          /\ calc'.coordinates = calc.coordinates]_vars
  /\ [][pc = "calc" /\ pc' # "calc" => pc' = "idle" /\ passEnd # <<>>]_vars

====
